---- MODULE Spec2Model ----
(***************************************************************************)
(* Knowledge-base ingestion and retrieval of support-autopilot:            *)
(*   - src/kb/retrieval.ts : term cache, extractTerms, buildIndex, search, *)
(*     retrieveForTicket                                                   *)
(*   - src/kb/ingest.ts    : processBatch, ingestDirectory                 *)
(*   - src/kb/chunking.ts  : chunkMarkdown (flushChunk), chunkText         *)
(* Texts are sequences of one-character strings.  Scores are kept as exact *)
(* fractions [num, den].  Chunk positions are 0-based as in the code.      *)
(***************************************************************************)
EXTENDS Integers, Sequences, FiniteSets, TLC

(***************************************************************************)
(* Characters                                                              *)
(***************************************************************************)
LowerLetters ==
  { "a", "b", "c", "d", "e", "f", "g", "h", "i", "j", "k", "l", "m",
    "n", "o", "p", "q", "r", "s", "t", "u", "v", "w", "x", "y", "z" }

UpperLetters ==
  { "A", "B", "C", "D", "E", "F", "G", "H", "I", "J", "K", "L", "M",
    "N", "O", "P", "Q", "R", "S", "T", "U", "V", "W", "X", "Y", "Z" }

Digits == { "0", "1", "2", "3", "4", "5", "6", "7", "8", "9" }

\* String.prototype.toLowerCase on one character (ASCII range).
LowerOf ==
   ("A" :> "a") @@ ("B" :> "b") @@ ("C" :> "c") @@ ("D" :> "d") @@
   ("E" :> "e") @@ ("F" :> "f") @@ ("G" :> "g") @@ ("H" :> "h") @@
   ("I" :> "i") @@ ("J" :> "j") @@ ("K" :> "k") @@ ("L" :> "l") @@
   ("M" :> "m") @@ ("N" :> "n") @@ ("O" :> "o") @@ ("P" :> "p") @@
   ("Q" :> "q") @@ ("R" :> "r") @@ ("S" :> "s") @@ ("T" :> "t") @@
   ("U" :> "u") @@ ("V" :> "v") @@ ("W" :> "w") @@ ("X" :> "x") @@
   ("Y" :> "y") @@ ("Z" :> "z")

ToLowerChar(c) == IF c \in UpperLetters THEN LowerOf[c] ELSE c

\* text.toLowerCase()
ToLowerCase(text) == [k \in 1..Len(text) |-> ToLowerChar(text[k])]

\* The class \w of a JavaScript regular expression (no unicode flag).
WordChars == LowerLetters \cup UpperLetters \cup Digits \cup {"_"}

IsWordChar(c) == c \in WordChars

\* The class [a-z].
IsAZ(c) == c \in LowerLetters

STOP_WORDS ==
  { <<"t","h","e">>, <<"a">>, <<"a","n">>, <<"i","s">>, <<"a","r","e">>, <<"w","a","s">>,
    <<"w","e","r","e">>, <<"b","e">>, <<"b","e","e","n">>, <<"b","e","i","n","g">>,
    <<"h","a","v","e">>, <<"h","a","s">>, <<"h","a","d">>, <<"d","o">>,
    <<"d","o","e","s">>, <<"d","i","d">>, <<"w","i","l","l">>, <<"w","o","u","l","d">>,
    <<"c","o","u","l","d">>, <<"s","h","o","u","l","d">>, <<"m","a","y">>,
    <<"m","i","g","h","t">>, <<"m","u","s","t">>, <<"s","h","a","l","l">>,
    <<"c","a","n">>, <<"n","e","e","d">>, <<"d","a","r","e">>, <<"o","u","g","h","t">>,
    <<"u","s","e","d">>, <<"t","o">>, <<"o","f">>, <<"i","n">>, <<"f","o","r">>,
    <<"o","n">>, <<"w","i","t","h">>, <<"a","t">>, <<"b","y">>, <<"f","r","o","m">>,
    <<"a","s">>, <<"i","n","t","o">>, <<"t","h","r","o","u","g","h">>,
    <<"d","u","r","i","n","g">>, <<"b","e","f","o","r","e">>, <<"a","f","t","e","r">>,
    <<"a","b","o","v","e">>, <<"b","e","l","o","w">>, <<"b","e","t","w","e","e","n">>,
    <<"u","n","d","e","r">>, <<"a","n","d">>, <<"b","u","t">>, <<"o","r">>,
    <<"y","e","t">>, <<"s","o">>, <<"i","f">>, <<"b","e","c","a","u","s","e">>,
    <<"a","l","t","h","o","u","g","h">>, <<"t","h","o","u","g","h">>,
    <<"w","h","i","l","e">>, <<"w","h","e","r","e">>, <<"w","h","e","n">>,
    <<"t","h","a","t">>, <<"w","h","i","c","h">>, <<"w","h","o">>, <<"w","h","o","m">>,
    <<"w","h","o","s","e">>, <<"w","h","a","t">>, <<"t","h","i","s">>,
    <<"t","h","e","s","e">>, <<"t","h","o","s","e">>, <<"i">>, <<"y","o","u">>,
    <<"h","e">>, <<"s","h","e">>, <<"i","t">>, <<"w","e">>, <<"t","h","e","y">>,
    <<"m","e">>, <<"h","i","m">>, <<"h","e","r">>, <<"u","s">>, <<"t","h","e","m">> }

(***************************************************************************)
(* extractTerms: the tokenizer proper (cache miss path)                    *)
(***************************************************************************)
\* Last position of the run of \w characters that starts at position k.
WordRunEnd(s, k) ==
  CHOOSE e \in k..Len(s) :
    /\ \A j \in k..e : IsWordChar(s[j])
    /\ e = Len(s) \/ ~IsWordChar(s[e + 1])

\* The positions at which a run of \w characters starts.
RunStarts(s) ==
  { k \in 1..Len(s) : IsWordChar(s[k]) /\ (k = 1 \/ ~IsWordChar(s[k - 1])) }

\* normalized.match(/\b[a-z]+\b/g) ?? [] , scanning from position k.  A match
\* needs a word boundary on both sides, so it is a whole run of \w characters
\* and every character of the run is in [a-z]; a run holding a digit or an
\* underscore yields no match at all.  The matches come in text order.
MatchWords(s, k) ==
  LET starts == { b \in RunStarts(s) :
                    b >= k /\ \A j \in b..WordRunEnd(s, b) : IsAZ(s[j]) }
      nth(n) == CHOOSE b \in starts : Cardinality({ x \in starts : x < b }) = n - 1
  IN  [n \in 1..Cardinality(starts) |-> SubSeq(s, nth(n), WordRunEnd(s, nth(n)))]

\* Membership in a sequence.
InSeq(x, s) == \E k \in 1..Len(s) : s[k] = x

\* [...new Set(words)] : first occurrences, in order.
RECURSIVE Dedupe(_)
Dedupe(s) ==
  IF s = << >> THEN << >>
  ELSE LET front == Dedupe(SubSeq(s, 1, Len(s) - 1))
           last  == s[Len(s)]
       IN  IF InSeq(last, front) THEN front ELSE Append(front, last)

\* A filter whose stop-word set also holds "not".
KeepWord_DropsNot(w) ==
  w \notin (STOP_WORDS \cup { << "n", "o", "t" >> }) /\ Len(w) > 2

\* filter(w => !STOP_WORDS.has(w) && w.length > 2)
KeepWord(w) == w \notin STOP_WORDS /\ Len(w) > 2

\* Lines 111-113 of extractTerms.
Tokenize(text) ==
  Dedupe(SelectSeq(MatchWords(ToLowerCase(text), 1), KeepWord))

(***************************************************************************)
(* Input texts                                                             *)
(***************************************************************************)
\* "the API key"
T_ApiKey ==
  <<"t","h","e"," ","A","P","I"," ","k","e","y">>

\* "api_key token1 set key set"
T_Under ==
  <<"a","p","i","_","k","e","y"," ","t","o","k","e","n","1"," ","s","e","t",
    " ","k","e","y"," ","s","e","t">>

\* "set up the new docs?"
T_All ==
  <<"s","e","t"," ","u","p"," ","t","h","e"," ","n","e","w"," ","d","o","c",
    "s","?">>

\* "is it"
T_None ==
  <<"i","s"," ","i","t">>

\* "API authentication requires a valid token"
T_AuthToken ==
  <<"A","P","I"," ","a","u","t","h","e","n","t","i","c","a","t","i","o","n",
    " ","r","e","q","u","i","r","e","s"," ","a"," ","v","a","l","i","d"," ",
    "t","o","k","e","n">>

\* "API key not working"
T_NotWorking ==
  <<"A","P","I"," ","k","e","y"," ","n","o","t"," ","w","o","r","k","i","n",
    "g">>

ChunkTexts == { T_ApiKey, T_Under }
ScenarioChunkTexts == { T_AuthToken }
QueryTexts == { T_All, T_None, T_NotWorking }
\* n copies of s laid end to end.
RECURSIVE Repeat(_, _)
Repeat(s, n) == IF n = 0 THEN << >> ELSE s \o Repeat(s, n - 1)

\* "set ", 79 times "is it " and "i is a keys valid" (495 characters): behind
\* the subject "the API key" and the separator, character 500 of the query
\* is the "y" of "keys", and "s valid" lies behind the cut.
T_LongBody ==
  <<"s","e","t"," ">>
    \o Repeat(<<"i","s"," ","i","t"," ">>, 79)
    \o <<"i"," ","i","s"," ","a"," ","k","e","y","s"," ","v","a","l","i","d">>

Subjects   == { T_ApiKey }
Bodies     == { T_LongBody }

\* The first n characters of t, all of t when it is shorter.
FirstChars(t, n) == SubSeq(t, 1, IF Len(t) < n THEN Len(t) ELSE n)

\* Every text the model hands to extractTerms.
KnownTexts ==
  ChunkTexts \cup ScenarioChunkTexts \cup QueryTexts
    \cup { s \o << " " >> \o b : s \in Subjects, b \in Bodies }
    \cup { FirstChars(s \o << " " >> \o b, 500) : s \in Subjects, b \in Bodies }

\* Tokenize, tabulated once for the texts of the model.
TermTable == [t \in KnownTexts |-> Tokenize(t)]

TermsOf(text) == IF text \in KnownTexts THEN TermTable[text] ELSE Tokenize(text)

(***************************************************************************)
(* Term cache (a Map in insertion order: a sequence of [key, terms])       *)
(***************************************************************************)
MAX_CACHE_SIZE == 1000

\* Position of the entry with this key, 0 when there is none.
CachePos(cache, text) ==
  IF \E k \in 1..Len(cache) : cache[k].key = text
  THEN CHOOSE k \in 1..Len(cache) : cache[k].key = text
  ELSE 0

\* Sequence s without its element at position k.
RemoveAt(s, k) == SubSeq(s, 1, k - 1) \o SubSeq(s, k + 1, Len(s))

\* Array.prototype.slice(start, end) for integer arguments: a negative
\* argument counts from the end, both are clamped to the array.
SliceJS(s, start, end) ==
  LET len  == Len(s)
      from == IF start < 0 THEN (IF len + start < 0 THEN 0 ELSE len + start)
              ELSE (IF start > len THEN len ELSE start)
      to   == IF end < 0 THEN (IF len + end < 0 THEN 0 ELSE len + end)
              ELSE (IF end > len THEN len ELSE end)
  IN  SubSeq(s, from + 1, to)

\* termCache.set(text, terms): a present key keeps its place, a new key goes
\* to the end.
MapSet(cache, text, terms) ==
  LET p == CachePos(cache, text)
  IN  IF p = 0 THEN Append(cache, [key |-> text, terms |-> terms])
      ELSE [cache EXCEPT ![p] = [key |-> text, terms |-> terms]]

\* A lookup that answers a hit with the terms of the oldest entry.
getCachedTerms_Oldest(cache, text) ==
  LET p == CachePos(cache, text)
  IN  IF p = 0 THEN [hit |-> FALSE, terms |-> << >>, cache |-> cache]
      ELSE [hit   |-> TRUE,
            terms |-> cache[1].terms,
            cache |-> MapSet(RemoveAt(cache, p), text, cache[p].terms)]

\* getCachedTerms: on a hit the entry moves to the end (an array, even an
\* empty one, is truthy).
getCachedTerms(cache, text) ==
  LET p == CachePos(cache, text)
  IN  IF p = 0 THEN [hit |-> FALSE, terms |-> << >>, cache |-> cache]
      ELSE [hit   |-> TRUE,
            terms |-> cache[p].terms,
            cache |-> MapSet(RemoveAt(cache, p), text, cache[p].terms)]

\* An insertion that at capacity deletes the last (newest) entry.
setCachedTerms_EvictsNewest(cache, text, terms) ==
  LET room == IF Len(cache) >= MAX_CACHE_SIZE THEN SubSeq(cache, 1, Len(cache) - 1)
              ELSE cache
  IN  MapSet(room, text, terms)

\* setCachedTerms: at capacity the first (oldest) entry is deleted first.
setCachedTerms(cache, text, terms) ==
  LET room == IF Len(cache) >= MAX_CACHE_SIZE THEN Tail(cache) ELSE cache
  IN  MapSet(room, text, terms)

\* extractTerms that stores the unfiltered word list in the cache.
extractTerms_CachesWords(cache, text) ==
  LET got == getCachedTerms(cache, text)
  IN  IF got.hit THEN [terms |-> got.terms, cache |-> got.cache]
      ELSE LET words == MatchWords(ToLowerCase(text), 1)
           IN  [terms |-> TermsOf(text),
                cache |-> setCachedTerms(got.cache, text, words)]

\* extractTerms: the terms and the cache it leaves behind.
extractTerms(cache, text) ==
  LET got == getCachedTerms(cache, text)
  IN  IF got.hit THEN [terms |-> got.terms, cache |-> got.cache]
      ELSE LET terms == TermsOf(text)
           IN  [terms |-> terms, cache |-> setCachedTerms(got.cache, text, terms)]

\* clearTermCache
clearTermCache(cache) == << >>

(***************************************************************************)
(* buildIndex                                                              *)
(***************************************************************************)
\* Objects are held by reference, as in the code: the chunk array, the source
\* map and the results keep references into the Source collection, never
\* copies.  A chunk reference names chunk n of source number src.
ChunkRef(s, n) == [src |-> s, n |-> n]

\* The chunk object a reference points to.
Deref(srcs, ref) == srcs[ref.src].chunks[ref.n]

\* The index before any source is read (lines 62-68).
EmptyGather == [chunks |-> << >>, allContents |-> << >>, chunkIndices |-> << >>]

\* Inner loop body taking chunkIndex after the push (the new length).
GatherChunk_OneBased(acc, ref, content) ==
  [chunks       |-> Append(acc.chunks, ref),
   allContents  |-> Append(acc.allContents, content),
   chunkIndices |-> Append(acc.chunkIndices, Len(acc.chunks) + 1)]

\* Inner loop body that puts the chunk in front (unshift instead of push).
GatherChunk_Prepend(acc, ref, content) ==
  [chunks       |-> << ref >> \o acc.chunks,
   allContents  |-> Append(acc.allContents, content),
   chunkIndices |-> Append(acc.chunkIndices, Len(acc.chunks))]

\* Inner loop body, lines 74-77: chunkIndex is chunks.length at the push.
GatherChunk(acc, ref, content) ==
  LET chunkIndex == Len(acc.chunks)
  IN  [chunks       |-> Append(acc.chunks, ref),
       allContents  |-> Append(acc.allContents, content),
       chunkIndices |-> Append(acc.chunkIndices, chunkIndex)]

\* for (const chunk of source.chunks), source number s, from chunk n on.
RECURSIVE GatherChunks(_, _, _, _)
GatherChunks(acc, srcs, s, n) ==
  IF n > Len(srcs[s].chunks) THEN acc
  ELSE GatherChunks(GatherChunk(acc, ChunkRef(s, n), srcs[s].chunks[n].content),
                    srcs, s, n + 1)

\* for (const source of sources), from source number s on (lines 70-79).
RECURSIVE GatherSources(_, _, _)
GatherSources(acc, srcs, s) ==
  IF s > Len(srcs) THEN acc
  ELSE GatherSources(GatherChunks(acc, srcs, s, 1), srcs, s + 1)

\* sourceMap.set(source.id, source) for every source: the entry of an id
\* refers to the last source that has it.
SourceMapOf(srcs) ==
  [id \in {srcs[k].id : k \in 1..Len(srcs)} |->
     CHOOSE k \in 1..Len(srcs) :
       /\ srcs[k].id = id
       /\ \A j \in (k + 1)..Len(srcs) : srcs[j].id # id]

\* Posting update that starts a fresh set for the term every time.
PostingAdd_Replace(termIndex, term, chunkIndex) ==
  [t \in DOMAIN termIndex \cup {term} |->
     IF t = term THEN << chunkIndex >> ELSE termIndex[t]]

\* Lines 88-91: create the posting set on first use, then Set.add.
PostingAdd(termIndex, term, chunkIndex) ==
  LET old == IF term \in DOMAIN termIndex THEN termIndex[term] ELSE << >>
      new == IF InSeq(chunkIndex, old) THEN old ELSE Append(old, chunkIndex)
  IN  [t \in DOMAIN termIndex \cup {term} |-> IF t = term THEN new ELSE termIndex[t]]

\* for (const term of terms), from term number k on.
RECURSIVE AddTerms(_, _, _, _)
AddTerms(termIndex, terms, chunkIndex, k) ==
  IF k > Len(terms) THEN termIndex
  ELSE AddTerms(PostingAdd(termIndex, terms[k], chunkIndex), terms, chunkIndex, k + 1)

\* Lines 82-93, from content number k on; st = [termIndex, cache].
RECURSIVE IndexContents(_, _, _)
IndexContents(st, g, k) ==
  IF k > Len(g.allContents) THEN st
  ELSE LET ex == extractTerms(st.cache, g.allContents[k])
       IN  IndexContents(
             [termIndex |-> AddTerms(st.termIndex, ex.terms, g.chunkIndices[k], 1),
              cache     |-> ex.cache], g, k + 1)

\* A Map with no entry.
EmptyMap == [t \in {} |-> << >>]

\* buildIndex(tenantId, projectId, sources), run on the given term cache.
buildIndex(srcs, cache) ==
  LET g  == GatherSources(EmptyGather, srcs, 1)
      st == IndexContents([termIndex |-> EmptyMap, cache |-> cache], g, 1)
  IN  [index |-> [sources   |-> SourceMapOf(srcs),
                  chunks    |-> g.chunks,
                  termIndex |-> st.termIndex],
       cache |-> st.cache]

(***************************************************************************)
(* search / retrieveForTicket                                              *)
(***************************************************************************)
DEFAULT_TOP_K == 5

\* minScore = 0.1
DEFAULT_MIN_SCORE == [num |-> 1, den |-> 10]

QUERY_MAX_CHARS == 500

\* a >= b for fractions with positive denominators.
FracGeq(a, b) == a.num * b.den >= b.num * a.den

FracGt(a, b) == a.num * b.den > b.num * a.den

\* Position of chunkIdx among the keys of chunkScores, 0 when absent.
ScorePos(chunkScores, chunkIdx) ==
  IF \E k \in 1..Len(chunkScores) : chunkScores[k].idx = chunkIdx
  THEN CHOOSE k \in 1..Len(chunkScores) : chunkScores[k].idx = chunkIdx
  ELSE 0

\* Score update that stores 1 instead of adding 1.
BumpScore_Overwrite(chunkScores, chunkIdx) ==
  LET p == ScorePos(chunkScores, chunkIdx)
  IN  IF p = 0 THEN Append(chunkScores, [idx |-> chunkIdx, score |-> 1])
      ELSE [chunkScores EXCEPT ![p].score = 1]

\* Lines 144-145: chunkScores.set(chunkIdx, (chunkScores.get(chunkIdx) ?? 0) + 1)
BumpScore(chunkScores, chunkIdx) ==
  LET p == ScorePos(chunkScores, chunkIdx)
  IN  IF p = 0 THEN Append(chunkScores, [idx |-> chunkIdx, score |-> 1])
      ELSE [chunkScores EXCEPT ![p].score = @ + 1]

\* for (const chunkIdx of matchingChunks), from element k on.
RECURSIVE BumpAll(_, _, _)
BumpAll(chunkScores, matchingChunks, k) ==
  IF k > Len(matchingChunks) THEN chunkScores
  ELSE BumpAll(BumpScore(chunkScores, matchingChunks[k]), matchingChunks, k + 1)

\* Lines 139-147, from query term k on.
RECURSIVE ScoreTerms(_, _, _, _)
ScoreTerms(chunkScores, termIndex, queryTerms, k) ==
  IF k > Len(queryTerms) THEN chunkScores
  ELSE IF queryTerms[k] \notin DOMAIN termIndex
       THEN ScoreTerms(chunkScores, termIndex, queryTerms, k + 1)
       ELSE ScoreTerms(BumpAll(chunkScores, termIndex[queryTerms[k]], 1),
                       termIndex, queryTerms, k + 1)

\* Threshold test with > in place of >=.
ScoredResult_Strict(index, entry, nTerms, minScore) ==
  LET normalizedScore == [num |-> entry.score, den |-> nTerms]
  IN  IF FracGt(normalizedScore, minScore)
      THEN << [chunk |-> index.chunks[entry.idx + 1], score |-> normalizedScore] >>
      ELSE << >>

\* Lines 152-159 for one entry of chunkScores: the result pushed, if any.
ScoredResult(index, entry, nTerms, minScore) ==
  LET normalizedScore == [num |-> entry.score, den |-> nTerms]
  IN  IF FracGeq(normalizedScore, minScore)
      THEN << [chunk |-> index.chunks[entry.idx + 1], score |-> normalizedScore] >>
      ELSE << >>

\* Lines 151-160, from entry k on.
RECURSIVE CollectResults(_, _, _, _, _)
CollectResults(index, chunkScores, nTerms, minScore, k) ==
  IF k > Len(chunkScores) THEN << >>
  ELSE ScoredResult(index, chunkScores[k], nTerms, minScore)
         \o CollectResults(index, chunkScores, nTerms, minScore, k + 1)

\* compare(a, b) = b.score - a.score > 0 : a has to move behind b.
SortsAfter(a, b) == FracGt(b.score, a.score)

\* Stable insertion of r into the sorted sequence s.
RECURSIVE InsertSorted(_, _)
InsertSorted(s, r) ==
  IF s = << >> THEN << r >>
  ELSE IF SortsAfter(s[Len(s)], r)
       THEN Append(InsertSorted(SubSeq(s, 1, Len(s) - 1), r), s[Len(s)])
       ELSE Append(s, r)

\* results.sort((a, b) => b.score - a.score): Array.prototype.sort is stable.
RECURSIVE SortByScore(_)
SortByScore(s) ==
  IF s = << >> THEN << >>
  ELSE InsertSorted(SortByScore(SubSeq(s, 1, Len(s) - 1)), s[Len(s)])

\* Truncation that keeps one result too many.
SliceTopK_OffByOne(s, k) == SliceJS(s, 0, k + 1)

\* results.slice(0, topK)
SliceTopK(s, k) == SliceJS(s, 0, k)

\* A search that scores every chunk of the index, starting each at 0, instead
\* of only the chunks found in a posting set.
search_ScoresAllChunks(index, q, k, ms, cache) ==
  LET ex          == extractTerms(cache, q)
      queryTerms  == ex.terms
      seeded      == [p \in 1..Len(index.chunks) |-> [idx |-> p - 1, score |-> 0]]
      chunkScores == ScoreTerms(seeded, index.termIndex, queryTerms, 1)
      found       == CollectResults(index, chunkScores, Len(queryTerms), ms, 1)
  IN  [results |-> SliceTopK(SortByScore(found), k), cache |-> ex.cache,
       index |-> index]

\* A search that takes the posting sets it reads out of the index.
search_ConsumesPostings(index, q, k, ms, cache) ==
  LET ex          == extractTerms(cache, q)
      queryTerms  == ex.terms
      chunkScores == ScoreTerms(<< >>, index.termIndex, queryTerms, 1)
      found       == CollectResults(index, chunkScores, Len(queryTerms), ms, 1)
      hit         == { t \in DOMAIN index.termIndex :
                         \E j \in 1..Len(queryTerms) : queryTerms[j] = t }
  IN  [results |-> SliceTopK(SortByScore(found), k), cache |-> ex.cache,
       index |-> [index EXCEPT !.termIndex =
                    [t \in DOMAIN index.termIndex \ hit |-> index.termIndex[t]]]]

\* search(index, query, {topK, minScore}), run on the given term cache; the
\* index field is the index object as search leaves it.
search(index, q, k, ms, cache) ==
  LET ex          == extractTerms(cache, q)
      queryTerms  == ex.terms
      chunkScores == ScoreTerms(<< >>, index.termIndex, queryTerms, 1)
      found       == CollectResults(index, chunkScores, Len(queryTerms), ms, 1)
  IN  [results |-> SliceTopK(SortByScore(found), k), cache |-> ex.cache,
       index |-> index]

\* A query that keeps the whole of subject and body.
TicketQuery_NoSlice(subject, body) == subject \o << " " >> \o body

\* `${ticketSubject} ${ticketBody}`.slice(0, 500)
TicketQuery(subject, body) ==
  SliceJS(subject \o << " " >> \o body, 0, QUERY_MAX_CHARS)

\* retrieveForTicket(index, ticketSubject, ticketBody, options)
retrieveForTicket(index, subject, body, k, ms, cache) ==
  search(index, TicketQuery(subject, body), k, ms, cache)

(***************************************************************************)
(* chunking.ts: strings                                                    *)
(***************************************************************************)
NL == "\n"

\* The characters \s matches among those the documents hold.
IsWhite(c) == c \in { " ", NL, "\t" }

\* String.prototype.trim
Trim(s) ==
  IF \A k \in 1..Len(s) : IsWhite(s[k]) THEN << >>
  ELSE LET a == CHOOSE k \in 1..Len(s) :
                  ~IsWhite(s[k]) /\ \A j \in 1..(k - 1) : IsWhite(s[j])
           b == CHOOSE k \in 1..Len(s) :
                  ~IsWhite(s[k]) /\ \A j \in (k + 1)..Len(s) : IsWhite(s[j])
       IN  SubSeq(s, a, b)

\* Array.prototype.join(sep)
RECURSIVE Join(_, _)
Join(parts, sep) ==
  IF parts = << >> THEN << >>
  ELSE IF Len(parts) = 1 THEN parts[1]
  ELSE parts[1] \o sep \o Join(Tail(parts), sep)

\* content.split('\n')
SplitLines(s) ==
  LET nls    == { k \in 1..Len(s) : s[k] = NL }
      n      == Cardinality(nls)
      cut(m) == IF m = 0 THEN 0
                ELSE IF m = n + 1 THEN Len(s) + 1
                ELSE CHOOSE k \in nls : Cardinality({ x \in nls : x < k }) = m - 1
  IN  [m \in 1..(n + 1) |-> SubSeq(s, cut(m - 1) + 1, cut(m) - 1)]

\* text.split(/\s+/).length : one more than the number of whitespace runs.
WordCount(s) ==
  1 + Cardinality({ k \in 1..Len(s) :
                      IsWhite(s[k]) /\ (k = 1 \/ ~IsWhite(s[k - 1])) })

MinOf(a, b) == IF a < b THEN a ELSE b

\* Array.prototype.pop: no effect on an empty array.
Pop(s) == IF s = << >> THEN s ELSE SubSeq(s, 1, Len(s) - 1)

\* DEFAULT_CHUNKING_OPTIONS
DEFAULT_CHUNKING_OPTIONS == [maxChunkSize |-> 1000, minChunkSize |-> 100, overlap |-> 50]

(***************************************************************************)
(* chunkMarkdown: headings                                                 *)
(***************************************************************************)
\* Number of "#" characters the line starts with.
HashRun(line) ==
  CHOOSE h \in 0..Len(line) :
    /\ \A j \in 1..h : line[j] = "#"
    /\ h = Len(line) \/ line[h + 1] # "#"

\* line.match(/^(#{1,6})\s+(.+)$/) : one to six "#", then whitespace, then at
\* least one more character.
IsHeading(line) ==
  LET h == HashRun(line)
  IN  /\ 1 <= h
      /\ h <= 6
      /\ Len(line) >= h + 2
      /\ IsWhite(line[h + 1])

\* headingMatch[1].length
HeadingLevel(line) == HashRun(line)

\* headingMatch[2].trim()
HeadingText(line) == Trim(SubSeq(line, HashRun(line) + 1, Len(line)))

\* A loop that pops only the entries of a deeper level.
RECURSIVE PopHeadings_DeeperOnly(_, _, _)
PopHeadings_DeeperOnly(headingStack, headingPath, level) ==
  IF headingStack # << >> /\ headingStack[Len(headingStack)].level > level
  THEN PopHeadings_DeeperOnly(Pop(headingStack), Pop(headingPath), level)
  ELSE [headingStack |-> headingStack, headingPath |-> headingPath]

\* The while loop of lines 307-310 on the pair of stacks.
RECURSIVE PopHeadings(_, _, _)
PopHeadings(headingStack, headingPath, level) ==
  IF headingStack # << >> /\ headingStack[Len(headingStack)].level >= level
  THEN PopHeadings(Pop(headingStack), Pop(headingPath), level)
  ELSE [headingStack |-> headingStack, headingPath |-> headingPath]

(***************************************************************************)
(* chunkMarkdown: flushChunk.  The closure's variables are the fields of   *)
(* st: chunks, currentChunk, currentStartLine.  Two history fields ride    *)
(* along: bufLines, the 0-based document line numbers of the lines in      *)
(* currentChunk, and chunkLines, for each chunk the line numbers of the    *)
(* lines its content was made of.                                          *)
(***************************************************************************)
\* A KBChunk; id stands for `${sourceId}_chunk_${id}`.
MakeChunk(n, text, startLine, endLine, path) ==
  [id           |-> n,
   content      |-> text,
   start_line   |-> startLine,
   end_line     |-> endLine,
   heading_path |-> path,
   char_count   |-> Len(text),
   word_count   |-> WordCount(text)]

\* A size test that lets texts one character short of minChunkSize pass.
ShouldMerge_OneShort(chunkText, nChunks, options) ==
  Len(chunkText) < options.minChunkSize - 1 /\ nChunks > 0

\* Line 264: chunkText.length < options.minChunkSize && chunks.length > 0
ShouldMerge(chunkText, nChunks, options) ==
  Len(chunkText) < options.minChunkSize /\ nChunks > 0

\* A merge that empties the buffer without appending its text.
MergeIntoPrev_Drops(st, chunkText) ==
  [st EXCEPT !.currentChunk = << >>, !.bufLines = << >>]

\* Lines 266-274: append the text to the previous chunk, empty the buffer.
MergeIntoPrev(st, chunkText) ==
  LET nChunks == Len(st.chunks)
      prev    == st.chunks[nChunks]
      merged  == prev.content \o << NL >> \o chunkText
  IN  [st EXCEPT
         !.chunks[nChunks] =
            [prev EXCEPT !.content    = merged,
                         !.end_line   = st.currentStartLine + Len(st.currentChunk),
                         !.char_count = Len(merged),
                         !.word_count = WordCount(merged)],
         !.currentChunk = << >>,
         !.chunkLines[nChunks] = @ \o st.bufLines,
         !.bufLines = << >>]

\* Lines 277-292: push a new chunk, keep the last overlap lines.
EmitChunk(st, chunkText, headingPath, options) ==
  LET overlapLines == MinOf(options.overlap, Len(st.currentChunk))
      kept         == SliceJS(st.currentChunk, 0 - overlapLines, Len(st.currentChunk))
  IN  [st EXCEPT
         !.chunks = Append(@, MakeChunk(Len(st.chunks), chunkText,
                                        st.currentStartLine + 1,
                                        st.currentStartLine + Len(st.currentChunk),
                                        headingPath)),
         !.currentChunk = kept,
         !.currentStartLine = st.currentStartLine + Len(kept) - overlapLines,
         !.chunkLines = Append(@, st.bufLines),
         !.bufLines = SliceJS(st.bufLines, 0 - overlapLines, Len(st.bufLines))]

\* flushChunk()
flushChunk(st, headingPath, options) ==
  LET chunkText == Trim(Join(st.currentChunk, << NL >>))
  IN  IF st.currentChunk = << >> THEN st
      ELSE IF chunkText = << >> THEN st
      ELSE IF ShouldMerge(chunkText, Len(st.chunks), options)
           THEN MergeIntoPrev(st, chunkText)
           ELSE EmitChunk(st, chunkText, headingPath, options)

(***************************************************************************)
(* chunkText                                                               *)
(***************************************************************************)
\* The class [.!?].
IsPunct(c) == c \in { ".", "!", "?" }

\* Last position of the run of characters that starts at k and is in the
\* class (punct = TRUE) or outside it (punct = FALSE).
RunEnd(s, k, punct) ==
  CHOOSE e \in k..Len(s) :
    /\ \A j \in k..e : IsPunct(s[j]) = punct
    /\ e = Len(s) \/ IsPunct(s[e + 1]) # punct

\* content.match(/[^.!?]+[.!?]+/g) : every maximal run of other characters
\* that is followed by punctuation, together with that punctuation, in text
\* order; << >> stands for null (no match).
MatchSentences(s) ==
  LET starts == { k \in 1..Len(s) :
                    /\ ~IsPunct(s[k])
                    /\ k = 1 \/ IsPunct(s[k - 1])
                    /\ RunEnd(s, k, FALSE) < Len(s) }
      nth(n) == CHOOSE b \in starts : Cardinality({ x \in starts : x < b }) = n - 1
  IN  [n \in 1..Cardinality(starts) |->
         SubSeq(s, nth(n), RunEnd(s, RunEnd(s, nth(n), FALSE) + 1, TRUE))]

\* Line 342: content.match(...) ?? [content]
SentencesOf(content) ==
  LET m == MatchSentences(content)
  IN  IF m = << >> THEN << content >> ELSE m

\* Math.ceil(a / b) for a >= 0, b > 0.
CeilDiv(a, b) == (a + b - 1) \div b

\* Lines 352-372: push the buffer as a chunk before sentence i, keep the
\* last overlapSentences sentences.
TextFlush(st, i, options) ==
  LET chunkText        == Trim(Join(st.currentChunk, << " " >>))
      overlapSentences == MinOf(CeilDiv(options.overlap, 50), Len(st.currentChunk))
      kept             == SliceJS(st.currentChunk, 0 - overlapSentences,
                                  Len(st.currentChunk))
  IN  [st EXCEPT
         !.chunks = Append(@, MakeChunk(Len(st.chunks), chunkText,
                                        st.currentStartIdx, i, << >>)),
         !.currentChunk = kept,
         !.currentLength = Len(Join(kept, << " " >>)),
         !.currentStartIdx = i - overlapSentences]

\* Lines 349-376: the loop body for sentence number i (0-based).
TextSentence(st, sentences, i, options) ==
  LET sentence == Trim(sentences[i + 1])
      flushed  == IF /\ st.currentLength + Len(sentence) > options.maxChunkSize
                     /\ Len(st.currentChunk) > 0
                  THEN TextFlush(st, i, options)
                  ELSE st
  IN  [flushed EXCEPT !.currentChunk = Append(@, sentence),
                      !.currentLength = @ + Len(sentence)]

\* A final flush that pushes the buffer only when it meets minChunkSize.
TextFinish_MinOnly(st, nSentences, options) ==
  LET chunkText == Trim(Join(st.currentChunk, << " " >>))
  IN  IF Len(st.currentChunk) > 0 /\ Len(chunkText) >= options.minChunkSize
      THEN [st EXCEPT !.chunks = Append(@, MakeChunk(Len(st.chunks), chunkText,
                                                     st.currentStartIdx,
                                                     nSentences, << >>))]
      ELSE st

\* Lines 379-395: the final flush.
TextFinish(st, nSentences, options) ==
  LET chunkText == Trim(Join(st.currentChunk, << " " >>))
  IN  IF /\ Len(st.currentChunk) > 0
         /\ (Len(chunkText) >= options.minChunkSize \/ Len(st.chunks) = 0)
      THEN [st EXCEPT !.chunks = Append(@, MakeChunk(Len(st.chunks), chunkText,
                                                     st.currentStartIdx,
                                                     nSentences, << >>))]
      ELSE st

(***************************************************************************)
(* runner: withRetry (pure parts)                                          *)
(***************************************************************************)
DEFAULT_MAX_ATTEMPTS == 3

DEFAULT_INITIAL_DELAY_MS == 1000

DEFAULT_MULTIPLIER == 2

\* opts?.x ?? d : the option is << >> when not given, << v >> when given.
OptionOr(opt, d) == IF opt = << >> THEN d ELSE opt[1]

\* What the action can throw: a RunnerException with retryable true or false,
\* an Error whose message names a timeout, any other Error, a value that is
\* no Error.
ErrorKinds ==
  { "runner_retryable", "runner_fatal", "error_timeout", "error_other", "non_error" }

\* defaultShouldRetry
defaultShouldRetry(error) ==
  IF error \in { "runner_retryable", "runner_fatal" } THEN error = "runner_retryable"
  ELSE IF error \in { "error_timeout", "error_other" } THEN error = "error_timeout"
  ELSE FALSE

\* opts?.shouldRetry ?? defaultShouldRetry, applied to the error; the caller's
\* predicates of the model retry always, or never.
shouldRetry(opt, error) ==
  IF opt = "always" THEN TRUE
  ELSE IF opt = "never" THEN FALSE
  ELSE defaultShouldRetry(error)

\* Math.pow(b, n) for a natural number n.
RECURSIVE Pow(_, _)
Pow(b, n) == IF n = 0 THEN 1 ELSE b * Pow(b, n - 1)

\* initialDelay * Math.pow(multiplier, attempt - 1)
BackoffDelay(initial, mult, n) == initial * Pow(mult, n - 1)

\* A test that leaves the loop only at the last attempt.
BreaksLoop_IgnoresPredicate(n, maxN, retry) == n >= maxN

\* Line 139: attempt >= maxAttempts || !shouldRetry(error)
BreaksLoop(n, maxN, retry) == n >= maxN \/ ~retry

(***************************************************************************)
(* ingestDirectory / processBatch (pure parts)                             *)
(***************************************************************************)
DEFAULT_CONCURRENCY == 10

\* const concurrency = options.concurrency ?? DEFAULT_CONCURRENCY
\* (the option is << >> when not given, << n >> when given).
ConcurrencyOf(opt) == IF opt = << >> THEN DEFAULT_CONCURRENCY ELSE opt[1]

\* Batch cut that leaves out the last file of every batch.
BatchSlice_Short(items, i, c) == SliceJS(items, i, i + c - 1)

\* items.slice(i, i + concurrency)
BatchSlice(items, i, c) == SliceJS(items, i, i + c)

\* batch.map(item => processor(item)): every task of the batch is started.
StartTasks(b) == [k \in 1..Len(b) |-> [file |-> b[k], status |-> "pending"]]

\* The history entries of the calls started for batch number k.
StartedIn(b, k) == [n \in 1..Len(b) |-> [file |-> b[n], batch |-> k]]

\* An await that ends as soon as one task of the batch has settled.
AwaitOutcome_FirstSettled(ts) ==
  IF ts # << >> /\ \A k \in 1..Len(ts) : ts[k].status = "pending" THEN "pending"
  ELSE "fulfilled"

\* await Promise.all(...): rejects as soon as one task has rejected.
AwaitOutcome_PromiseAll(ts) ==
  IF \E k \in 1..Len(ts) : ts[k].status = "rejected" THEN "rejected"
  ELSE IF \E k \in 1..Len(ts) : ts[k].status = "pending" THEN "pending"
  ELSE "fulfilled"

\* await Promise.allSettled(...): pending until every task has settled, then
\* fulfilled whatever the tasks' outcomes; it never rejects.
AwaitOutcome(ts) ==
  IF \E k \in 1..Len(ts) : ts[k].status = "pending" THEN "pending" ELSE "fulfilled"

\* A collection that pushes the fulfilled values last task first.
FulfilledValues_Reversed(tasks) ==
  LET ok(t) == t.status = "fulfilled"
      done  == SelectSeq(tasks, ok)
  IN  [k \in 1..Len(done) |-> done[Len(done) + 1 - k].file]

\* Lines 187-193: the fulfilled values, in batch order.
FulfilledValues(tasks) ==
  LET ok(t) == t.status = "fulfilled"
      done  == SelectSeq(tasks, ok)
  IN  [k \in 1..Len(done) |-> done[k].file]

\* Lines 187-193: the rejected tasks, in batch order (one console.error each).
RejectedReasons(tasks) ==
  LET bad(t) == t.status = "rejected"
      done   == SelectSeq(tasks, bad)
  IN  [k \in 1..Len(done) |-> done[k].file]

(***************************************************************************)
(* Bounds and input sets                                                   *)
(***************************************************************************)
MaxChunks   == 2
MaxTopK     == 2
MaxQueries  == 1
MaxFiles    == 10
MaxFailures == 1
MaxLines    == 4
MaxPieces   == 3

TopKValues == 0..MaxTopK

MinScoreValues ==
  { [num |-> 0, den |-> 1], DEFAULT_MIN_SCORE, [num |-> 1, den |-> 2] }

ConcurrencyOptions == { << >>, << 1 >>, << 5 >>, << 20 >> }

\* All sequences over S of length at most n.
SeqsUpTo(S, n) == UNION { [1..m -> S] : m \in 0..n }

RECURSIVE SumSeq(_)
SumSeq(s) == IF s = << >> THEN 0 ELSE s[1] + SumSeq(Tail(s))

\* Sum of the first k elements.
PrefixSum(s, k) == SumSeq(SubSeq(s, 1, k))

\* KBSource number k of a collection whose chunk contents, laid end to end,
\* are flat and whose sources have the chunk counts sizes.
MakeSource(flat, sizes, k) ==
  [id     |-> k,
   chunks |-> [n \in 1..sizes[k] |->
                 [content |-> flat[PrefixSum(sizes, k - 1) + n]]]]

\* The Source collections handed to buildIndex: at most MaxChunks chunks in
\* all, every source holding at least one.
SourceLists ==
  { [k \in 1..Len(fs[2]) |-> MakeSource(fs[1], fs[2], k)] :
      fs \in { gs \in SeqsUpTo(ChunkTexts, MaxChunks) \X SeqsUpTo(1..MaxChunks, MaxChunks) :
                 SumSeq(gs[2]) = Len(gs[1]) } }

\* The collection of the retrieveForTicket test: one source holding the single
\* chunk "API authentication requires a valid token".
ScenarioSources == << [id |-> 1, chunks |-> << [content |-> T_AuthToken] >>] >>

\* The lines a markdown document of the model is made of: a blank line, a
\* level-1 and a level-2 heading, a short and a longer text line.
LineTexts ==
  { << >>,
    << "#", " ", "A" >>,
    << "#", "#", " ", "B" >>,
    << "a", "b" >>,
    << "c", "d", "e", "f", "g" >> }

\* The markdown documents: at most MaxLines lines joined by newlines.
MdDocuments == { Join(ls, << NL >>) : ls \in SeqsUpTo(LineTexts, MaxLines) }

\* The pieces a plain-text document of the model is made of: three sentences,
\* a fragment without closing punctuation, and a blank.
TextPieces ==
  { << "A", "b", "c", "d", "." >>,
    << " ", "e", "." >>,
    << " ", "f", "!" >>,
    << " ", "g", "h" >>,
    << " " >> }

\* The plain-text documents: at most MaxPieces pieces laid end to end.
TextDocuments == { Join(ps, << >>) : ps \in SeqsUpTo(TextPieces, MaxPieces) }

\* ChunkingOptions given to chunkMarkdown: positive integers with
\* maxChunkSize > minChunkSize, and the defaults.
MdOptionSets ==
  { [maxChunkSize |-> 6, minChunkSize |-> 3, overlap |-> 1],
    [maxChunkSize |-> 6, minChunkSize |-> 3, overlap |-> 2],
    DEFAULT_CHUNKING_OPTIONS }

\* ChunkingOptions given to chunkText.
TextOptionSets ==
  { [maxChunkSize |-> 7, minChunkSize |-> 6, overlap |-> 1],
    DEFAULT_CHUNKING_OPTIONS }

\* No retrieveForTicket call has been made.
NoTicket == << >>

NoIndex == [sources |-> << >>, chunks |-> << >>, termIndex |-> EmptyMap]

(***************************************************************************)
(* State                                                                   *)
(***************************************************************************)
VARIABLES
  sources,     \* the KBSource[] given to buildIndex
  index,       \* the RetrievalIndex last returned by buildIndex
  built,       \* whether buildIndex has returned
  termCache,   \* the module-level term cache
  query,       \* the query string of the last search
  topK,        \* options of the last search
  minScore,
  results,     \* what the last search returned
  ticket,      \* subject and body of the last retrieveForTicket, if any
  nQueries,    \* searches run so far
  variant,     \* which ingestDirectory runs: "batched" or "sequential"
  files,       \* the deduplicated file list
  unreadable,  \* the files whose ingestFile rejects
  concurrency, \* the batch size in use
  ipc,         \* position of ingestDirectory
  bi,          \* loop variable i of processBatch / the file loop
  tasks,       \* the tasks of the batch in flight
  acc,         \* the results array being filled
  errorLog,    \* console.error calls, in order
  returned,    \* what ingestDirectory resolved with
  nBatches,    \* history: batches cut so far (sequential: files tried so far)
  startLog,    \* history: every ingestFile call started, with its batch number
  settled,     \* history: the files whose ingestFile call has settled
  chunker,     \* which chunker runs: "markdown" or "text"
  content,     \* the document given to the chunker
  options,     \* its ChunkingOptions
  cpc,         \* position of the chunker: "idle", "call", "loop", "returned"
  lines,       \* chunkMarkdown: content.split('\n')
  sentences,   \* chunkText: the sentence array
  i,           \* the loop variable of either chunker
  chunks,      \* the chunks array (returned when cpc = "returned")
  currentChunk,     \* the buffer of lines or sentences
  currentStartLine, \* chunkMarkdown
  headingPath,      \* chunkMarkdown
  headingStack,     \* chunkMarkdown
  currentLength,    \* chunkText
  currentStartIdx,  \* chunkText
  bufLines,    \* history: document line numbers (0-based) of the buffer's lines
  chunkLines,  \* history: per chunk, the line numbers its content was made of
  maxAttempts,    \* withRetry: opts.maxAttempts ?? 3
  shouldRetryOpt, \* withRetry: which predicate opts.shouldRetry is
  initialDelay,   \* withRetry: opts.initialDelayMs ?? 1000
  multiplier,     \* withRetry: opts.multiplier ?? 2
  rpc,            \* position of withRetry
  attempt,        \* the loop variable of withRetry
  lastError,      \* withRetry: the error caught last
  retryResult,    \* what withRetry resolved with
  invocations,    \* history: calls of action made so far
  outcomeLog,     \* history: how each call of action settled, in order
  delays,         \* history: the delays slept, in order
  recent,      \* history: the texts used since the last clear, least recent first
  nFresh,      \* texts handed to extractTerms for the first time so far
  nAgain,      \* repeated extractions so far
  nClears,     \* clearTermCache calls so far
  lastText,    \* the text of the last extractTerms call
  lastHit      \* whether that call was answered from the cache

retrievalVars ==
  << sources, index, built, termCache, query, topK, minScore, results, ticket,
     nQueries >>

ingestVars ==
  << variant, files, unreadable, concurrency, ipc, bi, tasks, acc, errorLog, returned,
     nBatches, startLog, settled >>

chunkVars ==
  << chunker, content, options, cpc, lines, sentences, i, chunks, currentChunk,
     currentStartLine, headingPath, headingStack, currentLength, currentStartIdx,
     bufLines, chunkLines >>

retryVars ==
  << maxAttempts, shouldRetryOpt, initialDelay, multiplier, rpc, attempt, lastError,
     retryResult, invocations, outcomeLog, delays >>

lruVars == << recent, nFresh, nAgain, nClears, lastText, lastHit >>

vars == << retrievalVars, ingestVars, chunkVars, retryVars, lruVars >>

RetrievalIdle ==
  /\ index = NoIndex
  /\ built = FALSE
  /\ termCache = << >>
  /\ query = << >>
  /\ topK = DEFAULT_TOP_K
  /\ minScore = DEFAULT_MIN_SCORE
  /\ results = << >>
  /\ ticket = NoTicket
  /\ nQueries = 0

IngestIdle ==
  /\ variant = "batched"
  /\ files = << >>
  /\ unreadable = {}
  /\ concurrency = DEFAULT_CONCURRENCY
  /\ ipc = "idle"
  /\ bi = 0
  /\ tasks = << >>
  /\ acc = << >>
  /\ errorLog = << >>
  /\ returned = << >>
  /\ nBatches = 0
  /\ startLog = << >>
  /\ settled = {}

\* The locals of a chunker before its loop starts.
ChunkLocalsFresh ==
  /\ lines = << >>
  /\ sentences = << >>
  /\ i = 0
  /\ chunks = << >>
  /\ currentChunk = << >>
  /\ currentStartLine = 0
  /\ headingPath = << >>
  /\ headingStack = << >>
  /\ currentLength = 0
  /\ currentStartIdx = 0
  /\ bufLines = << >>
  /\ chunkLines = << >>

ChunkIdle ==
  /\ chunker = "markdown"
  /\ content = << >>
  /\ options = DEFAULT_CHUNKING_OPTIONS
  /\ cpc = "idle"
  /\ ChunkLocalsFresh

\* No error has been caught, nothing has been resolved.
NoError == "none"

NoResult == << >>

RetryLocalsFresh ==
  /\ attempt = 1
  /\ lastError = NoError
  /\ retryResult = NoResult
  /\ invocations = 0
  /\ outcomeLog = << >>
  /\ delays = << >>

RetryIdle ==
  /\ maxAttempts = DEFAULT_MAX_ATTEMPTS
  /\ shouldRetryOpt = "default"
  /\ initialDelay = DEFAULT_INITIAL_DELAY_MS
  /\ multiplier = DEFAULT_MULTIPLIER
  /\ rpc = "idle"
  /\ RetryLocalsFresh

LruIdle ==
  /\ recent = << >>
  /\ nFresh = 0
  /\ nAgain = 0
  /\ nClears = 0
  /\ lastText = << >>
  /\ lastHit = FALSE

(***************************************************************************)
(* Retrieval: buildIndex, search, retrieveForTicket, clearTermCache        *)
(***************************************************************************)
Init ==
  /\ sources \in SourceLists \cup { ScenarioSources }
  /\ RetrievalIdle
  /\ IngestIdle
  /\ ChunkIdle
  /\ RetryIdle
  /\ LruIdle

\* index = buildIndex(tenantId, projectId, sources)
BuildIndex ==
  LET b == buildIndex(sources, termCache)
  IN  /\ index' = b.index
      /\ termCache' = b.cache
      /\ built' = TRUE
      /\ UNCHANGED << sources, query, topK, minScore, results, ticket, nQueries >>
      /\ UNCHANGED << ingestVars, chunkVars, retryVars, lruVars >>

\* results = search(index, q, {topK: k, minScore: ms})
Search ==
  /\ built
  /\ nQueries < MaxQueries
  /\ \E q \in QueryTexts, k \in TopKValues, ms \in MinScoreValues :
       LET s == search(index, q, k, ms, termCache)
       IN  /\ results' = s.results
           /\ termCache' = s.cache
           /\ index' = s.index
           /\ query' = q
           /\ ticket' = NoTicket
           /\ topK' = k
           /\ minScore' = ms
  /\ nQueries' = nQueries + 1
  /\ UNCHANGED << sources, built >>
  /\ UNCHANGED << ingestVars, chunkVars, retryVars, lruVars >>

\* results = retrieveForTicket(index, subject, body, {topK: k, minScore: ms})
RetrieveForTicket ==
  /\ built
  /\ nQueries < MaxQueries
  /\ \E subject \in Subjects, body \in Bodies, k \in TopKValues, ms \in MinScoreValues :
       LET s == retrieveForTicket(index, subject, body, k, ms, termCache)
       IN  /\ results' = s.results
           /\ termCache' = s.cache
           /\ index' = s.index
           /\ query' = TicketQuery(subject, body)
           /\ ticket' = [subject |-> subject, body |-> body]
           /\ topK' = k
           /\ minScore' = ms
  /\ nQueries' = nQueries + 1
  /\ UNCHANGED << sources, built >>
  /\ UNCHANGED << ingestVars, chunkVars, retryVars, lruVars >>

\* clearTermCache()
ClearTermCache ==
  /\ termCache' = clearTermCache(termCache)
  /\ UNCHANGED << sources, index, built, query, topK, minScore, results, ticket,
                  nQueries >>
  /\ UNCHANGED << ingestVars, chunkVars, retryVars, lruVars >>

Next == BuildIndex \/ Search \/ RetrieveForTicket \/ ClearTermCache

Spec == Init /\ [][Next]_vars

(***************************************************************************)
(* Ingestion: ingestDirectory over a deduplicated file list                *)
(***************************************************************************)
\* The number of the batch cut after n batches.  The history counter stops at
\* MaxFiles + 1: only a loop that does not advance cuts that many batches,
\* and its batches from the second on are empty.
BatchNumber(n) == IF n <= MaxFiles THEN n + 1 ELSE n

\* File lists 1..n (the paths are distinct after [...new Set(...)]).
FileLists == { [k \in 1..n |-> k] : n \in 0..MaxFiles }

InitIngest ==
  /\ sources = << >>
  /\ RetrievalIdle
  /\ ChunkIdle
  /\ RetryIdle
  /\ LruIdle
  /\ variant \in { "batched", "sequential" }
  /\ files \in FileLists
  /\ unreadable \in { u \in SUBSET { files[k] : k \in 1..Len(files) } :
                        Cardinality(u) <= MaxFailures }
  /\ \E opt \in ConcurrencyOptions : concurrency = ConcurrencyOf(opt)
  /\ ipc = "loop"
  /\ bi = 0
  /\ tasks = << >>
  /\ acc = << >>
  /\ errorLog = << >>
  /\ returned = << >>
  /\ nBatches = 0
  /\ startLog = << >>
  /\ settled = {}

\* processBatch, lines 181-185: cut the next batch and start all its tasks.
StartBatch ==
  /\ variant = "batched"
  /\ ipc = "loop"
  /\ bi < Len(files)
  /\ tasks' = StartTasks(BatchSlice(files, bi, concurrency))
  /\ ipc' = "await"
  /\ nBatches' = BatchNumber(nBatches)
  /\ startLog' = startLog \o StartedIn(BatchSlice(files, bi, concurrency),
                                        BatchNumber(nBatches))
  /\ UNCHANGED << variant, files, unreadable, concurrency, bi, acc, errorLog, returned,
                  settled >>
  /\ UNCHANGED << retrievalVars, chunkVars, retryVars, lruVars >>

\* ingestFile of one started task resolves with its Source.
TaskFulfil ==
  /\ ipc = "await"
  /\ \E k \in 1..Len(tasks) :
       /\ tasks[k].status = "pending"
       /\ tasks[k].file \notin unreadable
       /\ tasks' = [tasks EXCEPT ![k].status = "fulfilled"]
       /\ settled' = settled \cup { tasks[k].file }
  /\ UNCHANGED << variant, files, unreadable, concurrency, ipc, bi, acc, errorLog, returned,
                  nBatches, startLog >>
  /\ UNCHANGED << retrievalVars, chunkVars, retryVars, lruVars >>

\* ingestFile of one started task rejects (readFile or a chunker threw).
TaskReject ==
  /\ ipc = "await"
  /\ \E k \in 1..Len(tasks) :
       /\ tasks[k].status = "pending"
       /\ tasks[k].file \in unreadable
       /\ tasks' = [tasks EXCEPT ![k].status = "rejected"]
       /\ settled' = settled \cup { tasks[k].file }
  /\ UNCHANGED << variant, files, unreadable, concurrency, ipc, bi, acc, errorLog, returned,
                  nBatches, startLog >>
  /\ UNCHANGED << retrievalVars, chunkVars, retryVars, lruVars >>

\* Promise.allSettled resolved: lines 187-193, then i += concurrency.
CollectBatch ==
  /\ ipc = "await"
  /\ AwaitOutcome(tasks) # "pending"
  /\ IF AwaitOutcome(tasks) = "fulfilled"
     THEN /\ acc' = acc \o FulfilledValues(tasks)
          /\ errorLog' = errorLog \o RejectedReasons(tasks)
          /\ bi' = bi + concurrency
          /\ tasks' = << >>
          /\ ipc' = "loop"
     ELSE \* the awaited promise rejected: processBatch and ingestDirectory reject
          /\ ipc' = "rejected"
          /\ UNCHANGED << acc, errorLog, bi, tasks >>
  /\ UNCHANGED << variant, files, unreadable, concurrency, returned, nBatches, startLog,
                  settled >>
  /\ UNCHANGED << retrievalVars, chunkVars, retryVars, lruVars >>

\* processBatch returns results and ingestDirectory resolves with them.
ReturnSources ==
  /\ variant = "batched"
  /\ ipc = "loop"
  /\ ~(bi < Len(files))
  /\ returned' = acc
  /\ ipc' = "resolved"
  /\ UNCHANGED << variant, files, unreadable, concurrency, bi, tasks, acc, errorLog,
                  nBatches, startLog, settled >>
  /\ UNCHANGED << retrievalVars, chunkVars, retryVars, lruVars >>

\* Sequential ingestDirectory, lines 101-108: one loop turn, the try branch.
SeqIngestOk ==
  /\ variant = "sequential"
  /\ ipc = "loop"
  /\ bi < Len(files)
  /\ files[bi + 1] \notin unreadable
  /\ acc' = Append(acc, files[bi + 1])
  /\ bi' = bi + 1
  /\ nBatches' = nBatches + 1
  /\ startLog' = startLog \o StartedIn(<< files[bi + 1] >>, nBatches + 1)
  /\ settled' = settled \cup { files[bi + 1] }
  /\ UNCHANGED << variant, files, unreadable, concurrency, ipc, tasks, errorLog, returned >>
  /\ UNCHANGED << retrievalVars, chunkVars, retryVars, lruVars >>

\* Sequential ingestDirectory: one loop turn, the catch branch.
SeqIngestFail ==
  /\ variant = "sequential"
  /\ ipc = "loop"
  /\ bi < Len(files)
  /\ files[bi + 1] \in unreadable
  /\ errorLog' = Append(errorLog, files[bi + 1])
  /\ bi' = bi + 1
  /\ nBatches' = nBatches + 1
  /\ startLog' = startLog \o StartedIn(<< files[bi + 1] >>, nBatches + 1)
  /\ settled' = settled \cup { files[bi + 1] }
  /\ UNCHANGED << variant, files, unreadable, concurrency, ipc, tasks, acc, returned >>
  /\ UNCHANGED << retrievalVars, chunkVars, retryVars, lruVars >>

\* Sequential ingestDirectory, line 110: return sources.
SeqReturn ==
  /\ variant = "sequential"
  /\ ipc = "loop"
  /\ ~(bi < Len(files))
  /\ returned' = acc
  /\ ipc' = "resolved"
  /\ UNCHANGED << variant, files, unreadable, concurrency, bi, tasks, acc, errorLog,
                  nBatches, startLog, settled >>
  /\ UNCHANGED << retrievalVars, chunkVars, retryVars, lruVars >>

NextIngest ==
  \/ StartBatch \/ TaskFulfil \/ TaskReject \/ CollectBatch \/ ReturnSources
  \/ SeqIngestOk \/ SeqIngestFail \/ SeqReturn

SpecIngest == InitIngest /\ [][NextIngest]_vars

(***************************************************************************)
(* The batched ingestDirectory for any configured concurrency              *)
(***************************************************************************)
\* options.concurrency is a number the caller chooses; nothing checks it.
AnyConcurrencyOptions == { << >>, << 0 >>, << 1 >>, << 3 >> }

InitIngestAny ==
  /\ sources = << >>
  /\ RetrievalIdle
  /\ ChunkIdle
  /\ RetryIdle
  /\ LruIdle
  /\ variant = "batched"
  /\ files \in FileLists
  /\ unreadable \in { u \in SUBSET { files[k] : k \in 1..Len(files) } :
                        Cardinality(u) <= MaxFailures }
  /\ \E opt \in AnyConcurrencyOptions : concurrency = ConcurrencyOf(opt)
  /\ ipc = "loop"
  /\ bi = 0
  /\ tasks = << >>
  /\ acc = << >>
  /\ errorLog = << >>
  /\ returned = << >>
  /\ nBatches = 0
  /\ startLog = << >>
  /\ settled = {}

NextBatched ==
  StartBatch \/ TaskFulfil \/ TaskReject \/ CollectBatch \/ ReturnSources

\* Every await of the function is over at some time: a started ingestFile
\* call settles, and the function goes on when the awaited promise has.
SpecIngestAny == InitIngestAny /\ [][NextBatched]_vars /\ WF_vars(NextBatched)


(***************************************************************************)
(* Chunking: chunkMarkdown and chunkText, one loop turn per step           *)
(***************************************************************************)
InitChunk ==
  /\ sources = << >>
  /\ RetrievalIdle
  /\ IngestIdle
  /\ RetryIdle
  /\ LruIdle
  /\ \/ chunker = "markdown" /\ content \in MdDocuments /\ options \in MdOptionSets
     \/ chunker = "text" /\ content \in TextDocuments /\ options \in TextOptionSets
  /\ cpc = "call"
  /\ ChunkLocalsFresh

\* The variables of the closure flushChunk works on.
MdState ==
  [chunks           |-> chunks,
   currentChunk     |-> currentChunk,
   currentStartLine |-> currentStartLine,
   bufLines         |-> bufLines,
   chunkLines       |-> chunkLines]

\* chunkMarkdown, lines 248-257: the guard for empty content, the split.
MdEnter ==
  /\ chunker = "markdown"
  /\ cpc = "call"
  /\ IF content = << >> \/ Trim(content) = << >>
     THEN /\ cpc' = "returned"
          /\ UNCHANGED lines
     ELSE /\ cpc' = "loop"
          /\ lines' = SplitLines(content)
  /\ UNCHANGED << chunker, content, options, sentences, i, chunks, currentChunk,
                  currentStartLine, headingPath, headingStack, currentLength,
                  currentStartIdx, bufLines, chunkLines >>
  /\ UNCHANGED << retrievalVars, ingestVars, retryVars, lruVars >>

\* chunkMarkdown, lines 299-318: one loop turn on a heading line.
MdHeadingLine ==
  /\ chunker = "markdown"
  /\ cpc = "loop"
  /\ i < Len(lines)
  /\ IsHeading(lines[i + 1])
  /\ LET line    == lines[i + 1]
         level   == HeadingLevel(line)
         text    == HeadingText(line)
         flushed == IF Len(currentChunk) > 0
                    THEN flushChunk(MdState, headingPath, options)
                    ELSE MdState
         popped  == PopHeadings(headingStack, headingPath, level)
     IN  /\ headingStack' = Append(popped.headingStack,
                                   [level |-> level, text |-> text, line |-> i])
         /\ headingPath' = Append(popped.headingPath, text)
         /\ chunks' = flushed.chunks
         /\ chunkLines' = flushed.chunkLines
         /\ currentChunk' = Append(flushed.currentChunk, line)
         /\ bufLines' = Append(flushed.bufLines, i)
         /\ currentStartLine' =
              IF flushed.currentStartLine = 0 /\ Len(flushed.chunks) = 0
              THEN i ELSE flushed.currentStartLine
  /\ i' = i + 1
  /\ UNCHANGED << chunker, content, options, cpc, lines, sentences, currentLength,
                  currentStartIdx >>
  /\ UNCHANGED << retrievalVars, ingestVars, retryVars, lruVars >>

\* chunkMarkdown, lines 319-329: one loop turn on any other line.
MdTextLine ==
  /\ chunker = "markdown"
  /\ cpc = "loop"
  /\ i < Len(lines)
  /\ ~IsHeading(lines[i + 1])
  /\ LET line     == lines[i + 1]
         pushed   == [MdState EXCEPT
                        !.currentStartLine = IF Len(currentChunk) = 0 THEN i ELSE @,
                        !.currentChunk = Append(@, line),
                        !.bufLines = Append(@, i)]
         currentText == Join(pushed.currentChunk, << NL >>)
         after    == IF Len(currentText) >= options.maxChunkSize
                     THEN flushChunk(pushed, headingPath, options)
                     ELSE pushed
     IN  /\ chunks' = after.chunks
         /\ chunkLines' = after.chunkLines
         /\ currentChunk' = after.currentChunk
         /\ bufLines' = after.bufLines
         /\ currentStartLine' = after.currentStartLine
  /\ i' = i + 1
  /\ UNCHANGED << chunker, content, options, cpc, lines, sentences, headingPath,
                  headingStack, currentLength, currentStartIdx >>
  /\ UNCHANGED << retrievalVars, ingestVars, retryVars, lruVars >>

\* chunkMarkdown, lines 332-334: the final flush, return chunks.
MdReturn ==
  /\ chunker = "markdown"
  /\ cpc = "loop"
  /\ ~(i < Len(lines))
  /\ LET after == flushChunk(MdState, headingPath, options)
     IN  /\ chunks' = after.chunks
         /\ chunkLines' = after.chunkLines
         /\ currentChunk' = after.currentChunk
         /\ bufLines' = after.bufLines
         /\ currentStartLine' = after.currentStartLine
  /\ cpc' = "returned"
  /\ UNCHANGED << chunker, content, options, lines, sentences, i, headingPath,
                  headingStack, currentLength, currentStartIdx >>
  /\ UNCHANGED << retrievalVars, ingestVars, retryVars, lruVars >>

\* The variables the loop of chunkText works on.
TextState ==
  [chunks          |-> chunks,
   currentChunk    |-> currentChunk,
   currentLength   |-> currentLength,
   currentStartIdx |-> currentStartIdx]

\* chunkText, lines 342-346: split into sentences.
TextEnter ==
  /\ chunker = "text"
  /\ cpc = "call"
  /\ sentences' = SentencesOf(content)
  /\ cpc' = "loop"
  /\ UNCHANGED << chunker, content, options, lines, i, chunks, currentChunk,
                  currentStartLine, headingPath, headingStack, currentLength,
                  currentStartIdx, bufLines, chunkLines >>
  /\ UNCHANGED << retrievalVars, ingestVars, retryVars, lruVars >>

\* chunkText, lines 348-377: one loop turn.
TextLoop ==
  /\ chunker = "text"
  /\ cpc = "loop"
  /\ i < Len(sentences)
  /\ LET after == TextSentence(TextState, sentences, i, options)
     IN  /\ chunks' = after.chunks
         /\ currentChunk' = after.currentChunk
         /\ currentLength' = after.currentLength
         /\ currentStartIdx' = after.currentStartIdx
  /\ i' = i + 1
  /\ UNCHANGED << chunker, content, options, cpc, lines, sentences,
                  currentStartLine, headingPath, headingStack, bufLines,
                  chunkLines >>
  /\ UNCHANGED << retrievalVars, ingestVars, retryVars, lruVars >>

\* chunkText, lines 379-397: the final flush, return chunks.
TextReturn ==
  /\ chunker = "text"
  /\ cpc = "loop"
  /\ ~(i < Len(sentences))
  /\ LET after == TextFinish(TextState, Len(sentences), options)
     IN  /\ chunks' = after.chunks
         /\ currentChunk' = after.currentChunk
         /\ currentLength' = after.currentLength
         /\ currentStartIdx' = after.currentStartIdx
  /\ cpc' = "returned"
  /\ UNCHANGED << chunker, content, options, lines, sentences, i,
                  currentStartLine, headingPath, headingStack, bufLines,
                  chunkLines >>
  /\ UNCHANGED << retrievalVars, ingestVars, retryVars, lruVars >>

NextChunk ==
  \/ MdEnter \/ MdHeadingLine \/ MdTextLine \/ MdReturn
  \/ TextEnter \/ TextLoop \/ TextReturn

SpecChunk == InitChunk /\ [][NextChunk]_vars

(***************************************************************************)
(* withRetry: one await per step                                           *)
(***************************************************************************)
\* The largest maxAttempts a caller of the model passes.
MaxRetryAttempts == 3

MaxAttemptsOptions == { << >> } \cup { << n >> : n \in 0..MaxRetryAttempts }

InitRetry ==
  /\ sources = << >>
  /\ RetrievalIdle
  /\ IngestIdle
  /\ ChunkIdle
  /\ LruIdle
  /\ \E opt \in MaxAttemptsOptions : maxAttempts = OptionOr(opt, DEFAULT_MAX_ATTEMPTS)
  /\ shouldRetryOpt \in { "default", "always", "never" }
  /\ \E opt \in { << >>, << 1 >> } : initialDelay = OptionOr(opt, DEFAULT_INITIAL_DELAY_MS)
  /\ \E opt \in { << >>, << 3 >> } : multiplier = OptionOr(opt, DEFAULT_MULTIPLIER)
  /\ rpc = "loop"
  /\ RetryLocalsFresh

\* Lines 128-130: the loop test holds, action(attempt) is called.
RetryInvoke ==
  /\ rpc = "loop"
  /\ attempt <= maxAttempts
  /\ invocations' = invocations + 1
  /\ rpc' = "action"
  /\ UNCHANGED << maxAttempts, shouldRetryOpt, initialDelay, multiplier, attempt,
                  lastError, retryResult, outcomeLog, delays >>
  /\ UNCHANGED << retrievalVars, ingestVars, chunkVars, lruVars >>

\* Lines 128, 148: the loop test fails, RETRY_EXHAUSTED is thrown.
RetryLoopEnds ==
  /\ rpc = "loop"
  /\ ~(attempt <= maxAttempts)
  /\ rpc' = "rejected"
  /\ UNCHANGED << maxAttempts, shouldRetryOpt, initialDelay, multiplier, attempt,
                  lastError, retryResult, invocations, outcomeLog, delays >>
  /\ UNCHANGED << retrievalVars, ingestVars, chunkVars, lruVars >>

\* Lines 130-135: the action's promise fulfils, withRetry resolves.
ActionFulfils ==
  /\ rpc = "action"
  /\ retryResult' = << [attempts |-> attempt] >>
  /\ outcomeLog' = Append(outcomeLog, "ok")
  /\ rpc' = "resolved"
  /\ UNCHANGED << maxAttempts, shouldRetryOpt, initialDelay, multiplier, attempt,
                  lastError, invocations, delays >>
  /\ UNCHANGED << retrievalVars, ingestVars, chunkVars, lruVars >>

\* Lines 136-145: the action's promise rejects; the catch block either breaks
\* out of the loop, after which line 148 throws, or starts the sleep.
ActionRejects ==
  /\ rpc = "action"
  /\ \E error \in ErrorKinds :
       /\ lastError' = error
       /\ outcomeLog' = Append(outcomeLog, error)
       /\ IF BreaksLoop(attempt, maxAttempts, shouldRetry(shouldRetryOpt, error))
          THEN /\ rpc' = "rejected"
               /\ UNCHANGED delays
          ELSE /\ rpc' = "sleep"
               /\ delays' = Append(delays, BackoffDelay(initialDelay, multiplier, attempt))
  /\ UNCHANGED << maxAttempts, shouldRetryOpt, initialDelay, multiplier, attempt,
                  retryResult, invocations >>
  /\ UNCHANGED << retrievalVars, ingestVars, chunkVars, lruVars >>

\* Lines 144, 128: the sleep is over, attempt++.
SleepDone ==
  /\ rpc = "sleep"
  /\ attempt' = attempt + 1
  /\ rpc' = "loop"
  /\ UNCHANGED << maxAttempts, shouldRetryOpt, initialDelay, multiplier, lastError,
                  retryResult, invocations, outcomeLog, delays >>
  /\ UNCHANGED << retrievalVars, ingestVars, chunkVars, lruVars >>

NextRetry ==
  RetryInvoke \/ RetryLoopEnds \/ ActionFulfils \/ ActionRejects \/ SleepDone

SpecRetry == InitRetry /\ [][NextRetry]_vars

(***************************************************************************)
(* The term cache at capacity: extractTerms and clearTermCache alone       *)
(***************************************************************************)
\* Distinct texts handed to extractTerms, repeated extractions and clears.
MaxTexts  == 1003
MaxAgain  == 2
MaxClears == 1

DigitChars == << "0", "1", "2", "3", "4", "5", "6", "7", "8", "9" >>

\* String(n) for a natural number n.
RECURSIVE DigitsOf(_)
DigitsOf(n) ==
  IF n < 10 THEN << DigitChars[n + 1] >>
  ELSE Append(DigitsOf(n \div 10), DigitChars[(n % 10) + 1])

\* Text number n: "doc 1", "doc 2", ...
NumText(n) == << "d", "o", "c", " " >> \o DigitsOf(n)

\* The recency list after text is used: text is the most recent.
Touch(list, text) ==
  LET Other(x) == x # text
  IN  Append(SelectSeq(list, Other), text)

\* Repeated extractions and clears are made while the cache is within two
\* entries of its capacity.
NearCapacity == nFresh >= MAX_CACHE_SIZE - 1

InitCache ==
  /\ sources = << >>
  /\ RetrievalIdle
  /\ IngestIdle
  /\ ChunkIdle
  /\ RetryIdle
  /\ LruIdle

\* extractTerms(text), as buildIndex and search call it.
ExtractCall(text) ==
  LET ex == extractTerms(termCache, text)
  IN  /\ termCache' = ex.cache
      /\ recent' = Touch(recent, text)
      /\ lastText' = text
      /\ lastHit' = getCachedTerms(termCache, text).hit
      /\ UNCHANGED << sources, index, built, query, topK, minScore, results, ticket,
                      nQueries >>
      /\ UNCHANGED << ingestVars, chunkVars, retryVars >>

\* extractTerms on a text never seen before.
ExtractFresh ==
  /\ nFresh < MaxTexts
  /\ ExtractCall(NumText(nFresh + 1))
  /\ nFresh' = nFresh + 1
  /\ UNCHANGED << nAgain, nClears >>

\* extractTerms on a text seen before: the oldest entry of the cache, the
\* newest, or the very first text.
ExtractAgain ==
  /\ NearCapacity
  /\ nAgain < MaxAgain
  /\ termCache # << >>
  /\ \E text \in { termCache[1].key, termCache[Len(termCache)].key, NumText(1) } :
       ExtractCall(text)
  /\ nAgain' = nAgain + 1
  /\ UNCHANGED << nFresh, nClears >>

\* clearTermCache()
ClearCache ==
  /\ NearCapacity
  /\ nClears < MaxClears
  /\ termCache' = clearTermCache(termCache)
  /\ recent' = << >>
  /\ nClears' = nClears + 1
  /\ UNCHANGED << nFresh, nAgain, lastText, lastHit >>
  /\ UNCHANGED << sources, index, built, query, topK, minScore, results, ticket,
                  nQueries >>
  /\ UNCHANGED << ingestVars, chunkVars, retryVars >>

NextCache == ExtractFresh \/ ExtractAgain \/ ClearCache

SpecCache == InitCache /\ [][NextCache]_vars
(***************************************************************************)
(* Properties of ingestDirectory (checked under SpecIngest)                *)
(***************************************************************************)
Readable(f) == f \notin unreadable

Range(s) == { s[k] : k \in 1..Len(s) }

\* No element occurs twice.
NoRepeat(s) == \A j, k \in 1..Len(s) : s[j] = s[k] => j = k

\* C1: partial success.  ingestDirectory never rejects and, unless it has
\* resolved, always has a next step; when it has resolved, the Sources of all
\* readable files are returned (those in the batch of a failing file and in
\* later batches too), no unreadable file is among them, and every unreadable
\* file was logged.
PartialSuccess ==
  /\ ipc # "rejected"
  /\ (ipc = "resolved" \/ ENABLED NextIngest)
  /\ ipc = "resolved" =>
       /\ Range(returned) = { f \in Range(files) : Readable(f) }
       /\ Range(errorLog) = unreadable

\* C1 witness: a batched run has resolved although a file of the first batch
\* failed, with more batches after it.
PartialSuccessWitness ==
  /\ variant = "batched"
  /\ ipc = "resolved"
  /\ Len(files) > concurrency
  /\ \E f \in unreadable : f <= concurrency
  /\ Len(returned) = Len(files) - 1

\* C2: the batched ingestDirectory returns exactly one Source per readable
\* file and logs exactly one failure per unreadable file, whatever the
\* concurrency; 9 valid files and 1 unreadable file give 9 Sources and 1 log.
OneSourcePerSuccess ==
  (variant = "batched" /\ ipc = "resolved") =>
     /\ NoRepeat(returned)
     /\ NoRepeat(errorLog)
     /\ Range(returned) = Range(files) \ unreadable
     /\ Range(errorLog) = unreadable
     /\ Len(returned) = Len(files) - Cardinality(unreadable)
     /\ Len(errorLog) = Cardinality(unreadable)
     /\ (Len(files) = 10 /\ Cardinality(unreadable) = 1)
          => (Len(returned) = 9 /\ Len(errorLog) = 1)

\* C2 witness: 9 valid files and 1 unreadable file, concurrency 5.
OneSourcePerSuccessWitness ==
  /\ variant = "batched"
  /\ ipc = "resolved"
  /\ concurrency = 5
  /\ Len(files) = 10
  /\ Cardinality(unreadable) = 1
  /\ Len(returned) = 9
  /\ Len(errorLog) = 1

(***************************************************************************)
(* Properties of buildIndex (checked under Spec)                           *)
(***************************************************************************)
\* The terms of a text as a set, straight from the tokenizer (no cache).
TermSet(text) == Range(TermsOf(text))

\* Every term a chunk or a query of the model can hold.
TermUniverse ==
  UNION { TermSet(t) : t \in ChunkTexts \cup ScenarioChunkTexts \cup QueryTexts }

Positions == 0..(Len(index.chunks) - 1)

\* The content of the chunk at position p of the chunk array.
ContentAt(p) == Deref(sources, index.chunks[p + 1]).content

\* C3: every element of every posting set is an integer p with
\* 0 <= p < chunks.length, in every state: after buildIndex and after any
\* search or retrieveForTicket that follows.
PostingsValid ==
  \A t \in DOMAIN index.termIndex :
    \A k \in 1..Len(index.termIndex[t]) :
      /\ index.termIndex[t][k] \in Int
      /\ 0 <= index.termIndex[t][k]
      /\ index.termIndex[t][k] < Len(index.chunks)

\* C3 witness: an index with postings has served a query that found chunks.
PostingsValidWitness ==
  /\ built
  /\ nQueries >= 1
  /\ DOMAIN index.termIndex # {}
  /\ results # << >>

\* C4: p is in termIndex[t] exactly when t is a term of chunks[p].content;
\* no posting set is empty, so a term of no chunk has no entry.
IndexExact ==
  built =>
    /\ \A t \in TermUniverse \cup DOMAIN index.termIndex :
         \A p \in Positions :
           (t \in DOMAIN index.termIndex /\ InSeq(p, index.termIndex[t]))
             <=> t \in TermSet(ContentAt(p))
    /\ \A t \in DOMAIN index.termIndex : index.termIndex[t] # << >>

\* C4 witness: an index of two chunks, with a term posted for both and a
\* term posted for the second chunk only.
IndexExactWitness ==
  /\ built
  /\ Len(index.chunks) = 2
  /\ \E t \in DOMAIN index.termIndex : index.termIndex[t] = << 0, 1 >>
  /\ \E t \in DOMAIN index.termIndex : index.termIndex[t] = << 1 >>

\* Number of chunks in the sources before source k.
ChunksBefore(k) == SumSeq([j \in 1..(k - 1) |-> Len(sources[j].chunks)])

\* C5: the chunk array lists the sources' chunks in source order and, within
\* a source, in chunk order; its length is the sum of the chunk counts; the
\* position given to a chunk (the one its terms are posted under) is its
\* place in the array.
ChunkOrder ==
  built =>
    /\ Len(index.chunks) = SumSeq([k \in 1..Len(sources) |-> Len(sources[k].chunks)])
    /\ \A k \in 1..Len(sources) :
         \A n \in 1..Len(sources[k].chunks) :
           /\ index.chunks[ChunksBefore(k) + n] = ChunkRef(k, n)
           /\ \A t \in TermSet(sources[k].chunks[n].content) :
                /\ t \in DOMAIN index.termIndex
                /\ InSeq(ChunksBefore(k) + n - 1, index.termIndex[t])

\* C5 witness: two sources with chunks of different content were indexed.
ChunkOrderWitness ==
  /\ built
  /\ Len(sources) = 2
  /\ Len(sources[1].chunks) >= 1
  /\ Len(sources[2].chunks) >= 1
  /\ sources[1].chunks[1].content # sources[2].chunks[1].content

\* C6: the index in hand, built on whatever the term cache held at that
\* moment, is the index a build on an empty cache gives: same chunk array,
\* same postings.
BuildDeterministic ==
  built => index = buildIndex(sources, << >>).index

\* C6 witness: the last build ran on a warm cache (the query of an earlier
\* search is still the oldest entry, the chunk texts were touched after it).
BuildDeterministicWitness ==
  /\ built
  /\ nQueries >= 1
  /\ Len(termCache) >= 2
  /\ termCache[1].key = query
  /\ query \notin ChunkTexts
  /\ termCache[Len(termCache)].key \in ChunkTexts
  /\ DOMAIN index.termIndex # {}

(***************************************************************************)
(* Properties of search (checked under Spec)                               *)
(***************************************************************************)
\* Distinct query terms occurring in the chunk at position p.
Matched(p) == TermSet(query) \cap TermSet(ContentAt(p))

\* The normalized score of the chunk at position p for the last query.
ScoreOf(p) == [num |-> Cardinality(Matched(p)), den |-> Cardinality(TermSet(query))]

\* Position in index.chunks of a returned chunk.
PosOf(chunk) == CHOOSE p \in Positions : index.chunks[p + 1] = chunk

Returned(p) == \E k \in 1..Len(results) : PosOf(results[k].chunk) = p

\* C7: every returned score s satisfies 0 < s <= 1 and is the number of
\* distinct query terms in the chunk over the number of distinct query terms.
ScoreBound ==
  \A k \in 1..Len(results) :
    LET r == results[k]
    IN  /\ 0 < r.score.num
        /\ r.score.num <= r.score.den
        /\ r.score.den = Cardinality(TermSet(query))
        /\ r.score.num = Cardinality(TermSet(query) \cap TermSet(Deref(sources, r.chunk).content))

\* C7 witness: a chunk that holds the matched term twice is returned with
\* score 1/3 (one of three query terms).
ScoreBoundWitness ==
  \E k \in 1..Len(results) :
    /\ Deref(sources, results[k].chunk).content = T_Under
    /\ results[k].score = [num |-> 1, den |-> 3]

\* C8: with topK = k >= 0 at most k results are returned, ordered by
\* non-increasing score.
TopKBound ==
  topK >= 0 =>
    /\ Len(results) <= topK
    /\ \A j \in 1..(Len(results) - 1) : FracGeq(results[j].score, results[j + 1].score)

\* C8 witness: topK = 1 cut a result list of two candidates down to one.
TopKBoundWitness ==
  /\ nQueries >= 1
  /\ topK = 1
  /\ Len(results) = 1
  /\ \E p \in Positions : ~Returned(p) /\ ScoreOf(p).num > 0 /\ FracGeq(ScoreOf(p), minScore)

\* C9: results of equal score appear in chunk-array order.
TieOrder ==
  \A j, k \in 1..Len(results) :
    (j < k /\ results[j].score = results[k].score)
      => PosOf(results[j].chunk) < PosOf(results[k].chunk)

\* C10 as stated: only chunks scoring at least minScore are returned, and a
\* chunk scoring at least minScore is left out only by the topK cut: then the
\* result has exactly topK entries, none scoring lower than the chunk.
MinScoreFilter ==
  nQueries >= 1 =>
    /\ \A k \in 1..Len(results) : FracGeq(results[k].score, minScore)
    /\ \A p \in Positions :
         (Cardinality(TermSet(query)) > 0 /\ FracGeq(ScoreOf(p), minScore) /\ ~Returned(p))
           => /\ Len(results) = topK
              /\ \A k \in 1..Len(results) : FracGeq(results[k].score, ScoreOf(p))

\* C10 amended: for topK >= 0, only chunks scoring at least minScore are
\* returned, and a chunk whose score is positive and at least minScore is left
\* out only by the topK cut: then the result has exactly topK entries, none
\* scoring lower than the chunk.
MinScoreFilterPositive ==
  (nQueries >= 1 /\ topK >= 0) =>
    /\ \A k \in 1..Len(results) : FracGeq(results[k].score, minScore)
    /\ \A p \in Positions :
         (ScoreOf(p).num > 0 /\ FracGeq(ScoreOf(p), minScore) /\ ~Returned(p))
           => /\ Len(results) = topK
              /\ \A k \in 1..Len(results) : FracGeq(results[k].score, ScoreOf(p))

\* C10 witness: topK = 1 left out a chunk that passes minScore = 1/2.
MinScoreFilterWitness ==
  /\ nQueries >= 1
  /\ topK = 1
  /\ minScore = [num |-> 1, den |-> 2]
  /\ Len(results) = 1
  /\ \E p \in Positions : ~Returned(p) /\ ScoreOf(p).num > 0 /\ FracGeq(ScoreOf(p), minScore)


\* The entries of chunkScores the last search built: one division
\* score / queryTerms.length is performed per entry.
ChunkScoresOf(q) == ScoreTerms(<< >>, index.termIndex, TermsOf(q), 1)

\* C11: a query with zero extractable terms, or with no term that occurs in
\* the index, makes search return the empty list; in that case no division is
\* performed at all, and no result ever carries a score divided by a zero
\* term count.
NoMatchEmpty ==
  nQueries > 0 =>
    /\ (\A t \in TermSet(query) : t \notin DOMAIN index.termIndex) =>
         /\ results = << >>
         /\ ChunkScoresOf(query) = << >>
    /\ ChunkScoresOf(query) # << >> => Cardinality(TermSet(query)) > 0
    /\ \A k \in 1..Len(results) : results[k].score.den > 0

\* C11 witness: the query "is it" (zero terms) was searched with minScore 0 on
\* a non-empty index and nothing was returned.
NoMatchEmptyWitness ==
  /\ nQueries > 0
  /\ query = T_None
  /\ TermSet(query) = {}
  /\ minScore.num = 0
  /\ topK > 0
  /\ Len(index.chunks) > 0
  /\ results = << >>

W_api     == << "a", "p", "i" >>
W_key     == << "k", "e", "y" >>
W_not     == << "n", "o", "t" >>
W_working == << "w", "o", "r", "k", "i", "n", "g" >>

\* The index holds the single chunk "API authentication requires a valid
\* token" and "API key not working" was searched with minScore 0.1.
ScenarioASearched ==
  /\ nQueries > 0
  /\ sources = ScenarioSources
  /\ query = T_NotWorking
  /\ minScore = DEFAULT_MIN_SCORE
  /\ topK > 0

\* C12 as stated: in Scenario A the query has exactly the three terms api,
\* key, working and the chunk is returned with score 1/3.
ScenarioAThirds ==
  ScenarioASearched =>
    /\ TermSet(query) = { W_api, W_key, W_working }
    /\ Len(results) = 1
    /\ results[1].score.num * 3 = results[1].score.den

\* C12 amended: in Scenario A the query has exactly the four terms api, key,
\* not, working ("not" is no stop word); only api occurs in the chunk, which
\* is returned with score 1/4, above minScore 0.1.
ScenarioAQuarter ==
  ScenarioASearched =>
    /\ TermSet(query) = { W_api, W_key, W_not, W_working }
    /\ Matched(0) = { W_api }
    /\ Len(results) = 1
    /\ PosOf(results[1].chunk) = 0
    /\ results[1].score = [num |-> 1, den |-> 4]

\* C12 witness: Scenario A was run and returned its chunk.
ScenarioAWitness ==
  /\ ScenarioASearched
  /\ Len(results) = 1
  /\ ContentAt(0) = T_AuthToken

(***************************************************************************)
(* Properties of retrieveForTicket and of the index across queries         *)
(***************************************************************************)
\* `${ticketSubject} ${ticketBody}` of the last retrieveForTicket call.
TicketText == ticket.subject \o << " " >> \o ticket.body

\* C13: retrieveForTicket(index, subject, body, options) returns what
\* search(index, q, options) returns for q = the first 500 characters of
\* subject, one space, body; the terms that count are those of q alone, so
\* the text behind character 500 has no influence.
TicketIsSearch ==
  ticket # NoTicket =>
    /\ query = FirstChars(TicketText, 500)
    /\ results = search(index, FirstChars(TicketText, 500), topK, minScore, << >>).results
    /\ \A k \in 1..Len(results) :
         /\ results[k].score.den = Cardinality(TermSet(FirstChars(TicketText, 500)))
         /\ results[k].score.num =
              Cardinality(TermSet(FirstChars(TicketText, 500))
                            \cap TermSet(ContentAt(PosOf(results[k].chunk))))

\* C13 witness: a ticket whose text is longer than 500 characters, with terms
\* behind the cut that the first 500 characters do not hold, gave results.
TicketIsSearchWitness ==
  /\ ticket # NoTicket
  /\ Len(TicketText) > 500
  /\ Len(query) = 500
  /\ TermSet(TicketText) # TermSet(query)
  /\ \E t \in TermSet(TicketText) \ TermSet(query) : t \in DOMAIN index.termIndex
  /\ results # << >>

\* C14: search and retrieveForTicket leave index.chunks, index.sources and
\* every posting set of index.termIndex as they were.
IndexReadOnly ==
  [][nQueries' # nQueries =>
       /\ index'.chunks = index.chunks
       /\ index'.sources = index.sources
       /\ DOMAIN index'.termIndex = DOMAIN index.termIndex
       /\ \A t \in DOMAIN index.termIndex : index'.termIndex[t] = index.termIndex[t]]_vars

\* C14 witness: a query that found chunks has run, the term cache has
\* changed, and the index is what buildIndex makes of the sources.
IndexReadOnlyWitness ==
  /\ nQueries > 0
  /\ results # << >>
  /\ termCache # << >>
  /\ index.chunks # << >>
  /\ index = buildIndex(sources, << >>).index

(***************************************************************************)
(* Properties of chunkMarkdown and chunkText (checked under SpecChunk)     *)
(***************************************************************************)
\* t occurs in s as a run of consecutive characters.
Contains(s, t) ==
  \E k \in 0..(Len(s) - Len(t)) : SubSeq(s, k + 1, k + Len(t)) = t

\* C15 as stated: for an empty or whitespace-only document both chunkers
\* return no chunk at all.
EmptyDocNoChunks ==
  (cpc = "returned" /\ Trim(content) = << >>) => chunks = << >>

\* Document line number n (0-based) is neither blank nor a heading.
IsBodyLine(n) == Trim(lines[n + 1]) # << >> /\ ~IsHeading(lines[n + 1])

\* C16: coverage for chunkMarkdown.  The text of every non-blank, non-heading
\* line the loop has passed is in the content of some chunk or still in the
\* buffer, and when chunkMarkdown has returned it is in the content of some
\* returned chunk.
MdCoverage ==
  (chunker = "markdown" /\ cpc \in { "loop", "returned" }) =>
    \A n \in 0..(i - 1) :
      IsBodyLine(n) =>
        \/ \E c \in 1..Len(chunks) : Contains(chunks[c].content, Trim(lines[n + 1]))
        \/ cpc = "loop" /\ \E k \in 1..Len(currentChunk) : currentChunk[k] = lines[n + 1]

\* The text the history field chunkLines records for chunk c, as one emit
\* would have made it.
LinesJoined(c) ==
  Trim(Join([k \in 1..Len(chunkLines[c]) |-> lines[chunkLines[c][k] + 1]], << NL >>))

\* Chunk c has taken in the text of a later flush.
Merged(c) == chunks[c].content # LinesJoined(c)

\* C16 witness: chunkMarkdown has returned at least two chunks, one of them
\* grown by a backward merge, and some body line is held by two chunks
\* (overlap retention).
MdCoverageWitness ==
  /\ chunker = "markdown"
  /\ cpc = "returned"
  /\ Len(chunks) >= 2
  /\ \E c \in 1..Len(chunks) : Merged(c)
  /\ \E n \in 0..(Len(lines) - 1) :
       /\ IsBodyLine(n)
       /\ \E c, d \in 1..Len(chunks) :
            /\ c # d
            /\ \E k \in 1..Len(chunkLines[c]) : chunkLines[c][k] = n
            /\ \E k \in 1..Len(chunkLines[d]) : chunkLines[d][k] = n

\* The text behind the last punctuation character of s (all of s when it
\* holds none).
TrailingFragment(s) ==
  LET ps == { k \in 1..Len(s) : IsPunct(s[k]) }
  IN  IF ps = {} THEN s
      ELSE SubSeq(s, (CHOOSE k \in ps : \A j \in ps : j <= k) + 1, Len(s))

\* The sentences of s and its trailing fragment, trimmed, without empty ones.
TextUnits(s) ==
  { Trim(u) : u \in Range(MatchSentences(s)) \cup { TrailingFragment(s) } } \ { << >> }

\* C17 as stated: coverage for chunkText.  Every sentence and every trailing
\* fragment of a non-empty document is in the content of some returned chunk.
TextCoverage ==
  (chunker = "text" /\ cpc = "returned" /\ content # << >>) =>
    \A u \in TextUnits(content) :
      \E c \in 1..Len(chunks) : Contains(chunks[c].content, u)

\* The stack of (level, label) pairs of the ancestor headings after document
\* line n (0-based), built from the document alone.
RECURSIVE AncestorsAfter(_)
AncestorsAfter(n) ==
  IF n < 0 THEN << >>
  ELSE LET before   == AncestorsAfter(n - 1)
           line     == lines[n + 1]
           Above(e) == e.level < HeadingLevel(line)
       IN  IF IsHeading(line)
           THEN Append(SelectSeq(before, Above),
                       [level |-> HeadingLevel(line), label |-> HeadingText(line)])
           ELSE before

LabelsAfter(n) == [k \in 1..Len(AncestorsAfter(n)) |-> AncestorsAfter(n)[k].label]

\* The first document line (0-based) whose text chunk c holds: the first
\* non-blank line of the buffer it was emitted from.
FirstHeld(c) ==
  LET held == { n \in Range(chunkLines[c]) : Trim(lines[n + 1]) # << >> }
  IN  CHOOSE n \in held : \A m \in held : n <= m

\* C18 as stated: every chunk's heading_path is the stack of ancestor labels
\* that was active when the first line of its buffer was accumulated (blank
\* lines at the head of the buffer, which trim removes, are not counted).
HeadingPathAtOpen ==
  chunker = "markdown" =>
    \A c \in 1..Len(chunks) :
      chunks[c].heading_path = LabelsAfter(FirstHeld(c))

\* The buffer the next step of chunkMarkdown hands to flushChunk, << >> when
\* the step does not flush.
FlushedBuffer ==
  IF chunker # "markdown" \/ cpc # "loop" THEN << >>
  ELSE IF ~(i < Len(lines)) THEN currentChunk
  ELSE IF IsHeading(lines[i + 1]) THEN currentChunk
  ELSE IF Len(Join(Append(currentChunk, lines[i + 1]), << NL >>)) >= options.maxChunkSize
       THEN Append(currentChunk, lines[i + 1])
       ELSE << >>

\* The would-be chunk of that flush.
WouldBe == Trim(Join(FlushedBuffer, << NL >>))

\* One step of the merge rule: a would-be chunk shorter than minChunkSize,
\* with a chunk already emitted, goes to the end of the last chunk and no
\* chunk is added.
MergeStep ==
  (WouldBe # << >> /\ Len(WouldBe) < options.minChunkSize /\ chunks # << >>) =>
     /\ Len(chunks') = Len(chunks)
     /\ chunks'[Len(chunks)].content = chunks[Len(chunks)].content \o << NL >> \o WouldBe
     /\ \A c \in 1..(Len(chunks) - 1) : chunks'[c] = chunks[c]

\* C19: merge rule of chunkMarkdown.  In every state only the first chunk can
\* have a content shorter than minChunkSize, and every flush of a would-be
\* chunk below minChunkSize after the first emit is a merge into the last
\* chunk.
MergeRule ==
  /\ [](chunker = "markdown" =>
          \A c \in 2..Len(chunks) : Len(chunks[c].content) >= options.minChunkSize)
  /\ [][MergeStep]_vars

\* C19 witness: chunkMarkdown has returned with minChunkSize 3, a chunk has
\* taken in a would-be chunk of fewer characters, and every chunk after the
\* first has at least 3 characters.
MergeRuleWitness ==
  /\ chunker = "markdown"
  /\ cpc = "returned"
  /\ options.minChunkSize = 3
  /\ \E c \in 1..Len(chunks) :
       /\ Merged(c)
       /\ Contains(chunks[c].content, << NL, "a", "b" >>)

\* C20 as stated: chunkMarkdown never extends a buffer that already holds
\* maxChunkSize characters by a further non-heading line.
MaxSizeRespected ==
  [][(chunker = "markdown" /\ cpc = "loop" /\ i' = i + 1 /\ ~IsHeading(lines[i + 1])) =>
       Len(Join(currentChunk, << NL >>)) < options.maxChunkSize]_vars

\* The last document line (0-based) whose text chunk c holds.
LastHeld(c) ==
  LET held == { n \in Range(chunkLines[c]) : Trim(lines[n + 1]) # << >> }
  IN  CHOOSE n \in held : \A m \in held : m <= n

\* The first and the last document line (0-based) of the buffers chunk c was
\* made from, blank lines included.
FirstBuffered(c) == CHOOSE n \in Range(chunkLines[c]) : \A m \in Range(chunkLines[c]) : n <= m

LastBuffered(c) == CHOOSE n \in Range(chunkLines[c]) : \A m \in Range(chunkLines[c]) : m <= n

\* C21 as stated: for every chunk of chunkMarkdown start_line <= end_line,
\* start_line is the 1-based number of the first document line the chunk
\* holds and end_line that of the last (a blank line at either end of the
\* buffer, which trim removes, may or may not be counted).
LineNumbersExact ==
  chunker = "markdown" =>
    \A c \in 1..Len(chunks) :
      /\ chunks[c].start_line <= chunks[c].end_line
      /\ chunks[c].start_line \in (FirstBuffered(c) + 1)..(FirstHeld(c) + 1)
      /\ chunks[c].end_line \in (LastHeld(c) + 1)..(LastBuffered(c) + 1)

\* The whole input is one sentence for chunkText: it is not blank and the
\* sentence array is the input itself (one match spanning it, or no
\* punctuation at all).
SingleSentence(s) == Trim(s) # << >> /\ SentencesOf(s) = << s >>

\* C22 as stated: chunkText returns at least one chunk for every non-empty
\* input, and for an input that is a single sentence exactly one chunk whose
\* content equals the input.
SingleSentenceVerbatim ==
  (chunker = "text" /\ cpc = "returned" /\ content # << >>) =>
    /\ Len(chunks) >= 1
    /\ SingleSentence(content) => (Len(chunks) = 1 /\ chunks[1].content = content)

\* C22 amended: chunkText returns at least one chunk for every non-empty
\* input, also when the whole text is shorter than minChunkSize; for an input
\* that is a single sentence it returns exactly one chunk, whose content is
\* the input without the white space around it.
AtLeastOneChunk ==
  (chunker = "text" /\ cpc = "returned" /\ content # << >>) =>
    /\ Len(chunks) >= 1
    /\ SingleSentence(content) =>
         (Len(chunks) = 1 /\ chunks[1].content = Trim(content))

\* C22 witness: chunkText has returned for the single sentence " e.", shorter
\* than minChunkSize, with the one chunk "e.".
AtLeastOneChunkWitness ==
  /\ chunker = "text"
  /\ cpc = "returned"
  /\ content = << " ", "e", "." >>
  /\ SingleSentence(content)
  /\ Len(content) < options.minChunkSize
  /\ Len(chunks) = 1
  /\ chunks[1].content = << "e", "." >>

(***************************************************************************)
(* Properties of the term cache (checked under Spec)                       *)
(***************************************************************************)
\* C23: the term cache is transparent.  Whatever the cache holds (nothing,
\* the text itself, other texts, nothing again after clearTermCache),
\* extractTerms returns for every text the terms the tokenizer computes;
\* hence the index in hand and the results of the last search are those of
\* the same calls made on a cleared cache.
CacheTransparent ==
  /\ \A t \in KnownTexts :
       /\ extractTerms(termCache, t).terms = TermsOf(t)
       /\ extractTerms(clearTermCache(termCache), t).terms = TermsOf(t)
  /\ built => index = buildIndex(sources, clearTermCache(termCache)).index
  /\ nQueries > 0 =>
       results = search(buildIndex(sources, << >>).index, query, topK, minScore,
                        << >>).results

\* C23 witness: a search gave results, the cache was cleared afterwards and
\* filled again by a second buildIndex: it holds chunk texts but not the
\* query.
CacheTransparentWitness ==
  /\ built
  /\ nQueries > 0
  /\ results # << >>
  /\ termCache # << >>
  /\ CachePos(termCache, query) = 0
  /\ \E t \in KnownTexts : CachePos(termCache, t) > 0

(***************************************************************************)
(* Properties of withRetry (checked under SpecRetry)                       *)
(***************************************************************************)
\* Call number n of the action decides the outcome of withRetry: it
\* succeeded, it failed with an error shouldRetry rejects, or it was attempt
\* number maxAttempts.
Deciding(n) ==
  \/ outcomeLog[n] = "ok"
  \/ ~shouldRetry(shouldRetryOpt, outcomeLog[n])
  \/ n = maxAttempts

\* C24: withRetry calls the action sequentially, and the number of calls is
\* the index of the first deciding attempt.  A call is made only when every
\* earlier call has settled; no call follows a deciding one; on success at
\* attempt n withRetry resolves with attempts = n; after a failure that
\* shouldRetry rejects it rejects at once; when every attempt fails with an
\* error shouldRetry accepts it rejects after exactly maxAttempts calls.
RetryCount ==
  /\ invocations = Len(outcomeLog) + (IF rpc = "action" THEN 1 ELSE 0)
  /\ rpc = "action" => invocations = attempt
  /\ \A n \in 1..Len(outcomeLog) : Deciding(n) => invocations = n
  /\ rpc = "resolved" =>
       /\ invocations >= 1
       /\ outcomeLog[invocations] = "ok"
       /\ retryResult = << [attempts |-> invocations] >>
  /\ rpc = "rejected" =>
       /\ retryResult = NoResult
       /\ \A n \in 1..Len(outcomeLog) : outcomeLog[n] # "ok"
       /\ maxAttempts >= 1 => (invocations >= 1 /\ Deciding(invocations))
       /\ (\A n \in 1..Len(outcomeLog) : shouldRetry(shouldRetryOpt, outcomeLog[n]))
            => invocations = (IF maxAttempts >= 0 THEN maxAttempts ELSE 0)
  /\ rpc \in { "loop", "sleep" } =>
       \A n \in 1..Len(outcomeLog) :
         outcomeLog[n] # "ok" /\ shouldRetry(shouldRetryOpt, outcomeLog[n])

\* C24 witness: with maxAttempts = 3 and the default predicate, a retryable
\* failure was followed by a second call, whose non-retryable failure made
\* withRetry reject after two calls.
RetryCountWitness ==
  /\ rpc = "rejected"
  /\ maxAttempts = 3
  /\ shouldRetryOpt = "default"
  /\ outcomeLog = << "runner_retryable", "runner_fatal" >>
  /\ invocations = 2
  /\ Len(delays) = 1

(***************************************************************************)
(* Properties of processBatch (checked under SpecIngest)                   *)
(***************************************************************************)
\* The ingestFile calls that have been started and have not settled.
InFlight == { e \in Range(startLog) : e.file \notin settled }

\* The files whose ingestion was started in batch number k.
BatchFiles(k) == { e.file : e \in { x \in Range(startLog) : x.batch = k } }

\* A set of file numbers that are consecutive in the file list.
Consecutive(fs) == \A f, g \in fs : \A h \in f..g : h \in fs

\* C25: bounded-concurrency batching.  At every moment the calls in flight
\* belong to one batch, every batch is at most `concurrency` consecutive files
\* of the list, and when a call of a later batch has been started every call
\* of every earlier batch has settled, fulfilled or rejected.
BatchDiscipline ==
  variant = "batched" =>
    /\ \A e1, e2 \in InFlight : e1.batch = e2.batch
    /\ Cardinality(InFlight) <= concurrency
    /\ \A k \in 1..nBatches :
         /\ Cardinality(BatchFiles(k)) <= concurrency
         /\ Consecutive(BatchFiles(k))
    /\ \A e1, e2 \in Range(startLog) : e1.batch < e2.batch => e1.file \in settled
    /\ InFlight = { [file |-> tasks[k].file, batch |-> nBatches] :
                      k \in { j \in 1..Len(tasks) : tasks[j].status = "pending" } }

\* C25 witness: concurrency 5, ten files; the second batch is in flight with
\* one call settled and four pending, and a call of the first batch was
\* rejected.
BatchDisciplineWitness ==
  /\ variant = "batched"
  /\ concurrency = 5
  /\ Len(files) = 10
  /\ ipc = "await"
  /\ nBatches = 2
  /\ Cardinality(InFlight) = 4
  /\ \E f \in unreadable : f \in BatchFiles(1) /\ f \in settled

(***************************************************************************)
(* Heading stack of chunkMarkdown (checked under SpecChunk)                *)
(***************************************************************************)
\* One loop turn of chunkMarkdown on the stack: a heading line of level L
\* leaves the entries of a level below L, in order, and (L, label) on top;
\* any other line leaves the stack and the path alone.
StackStep ==
  (chunker = "markdown" /\ cpc = "loop" /\ i' = i + 1) =>
    LET line     == lines[i + 1]
        Below(e) == e.level < HeadingLevel(line)
    IN  IF IsHeading(line)
        THEN headingStack' =
               Append(SelectSeq(headingStack, Below),
                      [level |-> HeadingLevel(line), text |-> HeadingText(line),
                       line |-> i])
        ELSE UNCHANGED << headingStack, headingPath >>

\* C26: heading-stack discipline.  After every processed line the levels of
\* the stack entries increase strictly from bottom to top and headingPath
\* holds exactly the labels of the stack entries, in the same order; a
\* heading of level L pops every entry of level >= L before it is pushed.
StackDiscipline ==
  /\ [](chunker = "markdown" =>
          /\ \A k \in 1..(Len(headingStack) - 1) :
               headingStack[k].level < headingStack[k + 1].level
          /\ Len(headingPath) = Len(headingStack)
          /\ \A k \in 1..Len(headingStack) : headingPath[k] = headingStack[k].text
          /\ cpc = "loop" => headingPath = LabelsAfter(i - 1))
  /\ [][StackStep]_vars

\* C26 witness: after "# A", "## B" a second level-1 heading popped both
\* entries, and a level-2 heading was pushed on top of it.
StackDisciplineWitness ==
  /\ chunker = "markdown"
  /\ cpc = "loop"
  /\ i = 4
  /\ HeadingLevel(lines[1]) = 1 /\ IsHeading(lines[1])
  /\ HeadingLevel(lines[2]) = 2 /\ IsHeading(lines[2])
  /\ Len(headingStack) = 2
  /\ headingStack[1].line = 2
  /\ headingStack[2].line = 3
  /\ headingPath = << << "A" >>, << "B" >> >>

(***************************************************************************)
(* LRU discipline of the term cache (checked under SpecCache)              *)
(***************************************************************************)
\* The keys of the cache, oldest entry first.
CacheKeys(cache) == [k \in 1..Len(cache) |-> cache[k].key]

\* The last n elements of s, all of s when it has fewer.
LastN(s, n) == SubSeq(s, (IF Len(s) > n THEN Len(s) - n ELSE 0) + 1, Len(s))

\* One extractTerms call on the cache: a hit moves its entry to the
\* most-recent end and evicts nothing; a miss at capacity drops exactly the
\* least recently used entry and puts the new one at the most-recent end; a
\* miss below capacity only adds the new entry.
LruStep ==
  (nFresh' # nFresh \/ nAgain' # nAgain) =>
    LET text == lastText'
        p    == CachePos(termCache, text)
    IN  IF p > 0
        THEN /\ lastHit'
             /\ termCache' = Append(RemoveAt(termCache, p), termCache[p])
        ELSE /\ ~lastHit'
             /\ CacheKeys(termCache') =
                  Append(CacheKeys(IF Len(termCache) >= MAX_CACHE_SIZE
                                   THEN Tail(termCache) ELSE termCache), text)

\* C27: LRU discipline.  After any sequence of extractions and clears the
\* cache holds at most 1000 entries, and its keys are exactly the most
\* recently used distinct texts since the last clear, least recent first;
\* every call acts on the cache as LruStep says.
LruDiscipline ==
  /\ [](/\ Len(termCache) <= MAX_CACHE_SIZE
        /\ CacheKeys(termCache) = LastN(recent, MAX_CACHE_SIZE))
  /\ [][LruStep]_vars

\* C27 witness: the cache is full; after texts 1..1000 were inserted, text 1
\* was extracted again (a hit on the least recently used entry) and the miss
\* on text 1001 then evicted text 2, not text 1.
LruDisciplineWitness ==
  /\ Len(termCache) = MAX_CACHE_SIZE
  /\ nClears = 0
  /\ termCache[1].key = NumText(3)
  /\ CachePos(termCache, NumText(1)) = MAX_CACHE_SIZE - 1
  /\ termCache[MAX_CACHE_SIZE].key = NumText(MAX_CACHE_SIZE + 1)
  /\ CachePos(termCache, NumText(2)) = 0

(***************************************************************************)
(* The tokenizer against its description (checked under Spec)              *)
(***************************************************************************)
\* The maximal runs of alphabetic characters of the lowercased text s.
AlphaRuns(s) ==
  { SubSeq(s, a, b) : <<a, b>> \in
      { ab \in (1..Len(s)) \X (1..Len(s)) :
          /\ ab[1] <= ab[2]
          /\ \A j \in ab[1]..ab[2] : IsAZ(s[j])
          /\ ab[1] = 1 \/ ~IsAZ(s[ab[1] - 1])
          /\ ab[2] = Len(s) \/ ~IsAZ(s[ab[2] + 1]) } }

\* The terms the description gives a text: its alphabetic runs of length at
\* least 3 that are no stop words.
DescribedTerms(text) ==
  { w \in AlphaRuns(ToLowerCase(text)) : Len(w) >= 3 /\ w \notin STOP_WORDS }

\* C28 as stated: the terms of a text are exactly its lowercased maximal runs
\* of alphabetic characters of length >= 3 that are no stop words, digits and
\* underscores being separators; so the index holds, for every chunk, exactly
\* these runs as the terms posted for it.
AlphaRunsIndexed ==
  built =>
    \A p \in Positions :
      { t \in DOMAIN index.termIndex : InSeq(p, index.termIndex[t]) }
        = DescribedTerms(ContentAt(p))

(***************************************************************************)
(* Batched against sequential ingestDirectory (checked under SpecIngest)   *)
(***************************************************************************)
\* What the sequential ingestDirectory returns for the file list: the Sources
\* of the readable files, in file-list order.
SequentialResult == SelectSeq(files, Readable)

\* C29: for every file list, every concurrency >= 1 and every order in which
\* the calls of a batch complete, the batched ingestDirectory returns the
\* Sources of the successfully ingested files in file-list order, the very
\* sequence the sequential ingestDirectory returns; at every loop test the
\* results gathered so far are those of the files before position i.
SameAsSequential ==
  /\ ipc = "resolved" => returned = SequentialResult
  /\ (ipc = "loop" /\ concurrency >= 1) =>
       acc = SelectSeq(SubSeq(files, 1, IF bi < Len(files) THEN bi ELSE Len(files)),
                       Readable)

\* C29 witness: the batched variant, concurrency 5, has resolved for ten
\* files of which one in the second batch failed; a run of the sequential
\* variant on the same input resolves with the same sequence.
SameAsSequentialWitness ==
  /\ variant = "batched"
  /\ ipc = "resolved"
  /\ concurrency = 5
  /\ Len(files) = 10
  /\ unreadable = { 7 }
  /\ returned = << 1, 2, 3, 4, 5, 6, 8, 9, 10 >>
  /\ nBatches = 2

(***************************************************************************)
(* Termination of the batch loop (checked under SpecIngestAny)             *)
(***************************************************************************)
\* Number of ingestFile calls started for file f.
StartsOf(f) == Cardinality({ k \in 1..Len(startLog) : startLog[k].file = f })

\* C30 as stated: for every file list and every configured concurrency the
\* batch loop ends and ingestDirectory returns, and by then the ingestion of
\* every file has been started exactly once.
BatchLoopTerminates ==
  /\ <>(ipc = "resolved")
  /\ [](ipc = "resolved" => \A k \in 1..Len(files) : StartsOf(files[k]) = 1)
====
